---- MODULE Spec2Model ----
(***************************************************************************)
(* Mind Garden: the habit log (POST /api/habits/[habitId]/log), the three  *)
(* hand-written streak loops (dashboard stats route, export                *)
(* calculateStreak, HabitCalendar currentStreak), the month statistics of  *)
(* the HabitCalendar, the responses of GET /api/dashboard/stats, GET       *)
(* /api/habits and GET /api/export, the PomodoroTimer, the reminders of    *)
(* the NotificationCenter and the save status of the PageView.             *)
(*                                                                         *)
(* Time.  A JavaScript Date holds a time value in milliseconds since       *)
(* 1970-01-01T00:00Z.  The model keeps the time value in whole HOURS since *)
(* the same epoch: every clock reading, every stored log date and every    *)
(* UTC offset of the model is a whole number of hours, so day boundaries   *)
(* (UTC and local) fall exactly where they fall in the program.            *)
(***************************************************************************)
EXTENDS Integers, Sequences, FiniteSets, TLC

VARIABLES
    now,          \* the system clock: what `new Date()` returns
    tz,           \* UTC offset (hours) of the zone the JS runtime runs in
    logs,         \* the HabitLog table: rows [id, habitId, date, completed, note]
    nextId,       \* ids handed out so far by db.habitLog.create
    result,       \* streak call site -> what it was handed and what it returned
    req,          \* POST /log request slot -> the handler's position and locals
    habits,       \* habits page state: the logs of the habit as last fetched
    currentMonth, \* habits page state: the month the calendar displays
    monthStats,   \* HabitCalendar.monthStats as last rendered
    habitTable,   \* the Habit table: rows [id, isArchived] in creation order
    timer,        \* PomodoroTimer component state
    center,       \* NotificationCenter component state, its effect and clock
    pageView      \* PageView component state and its requests under way

vars == <<now, tz, logs, nextId, result, req, habits, currentMonth, monthStats,
          habitTable, timer, center, pageView>>

----------------------------------------------------------------------------
(* ECMAScript Date arithmetic (proleptic Gregorian calendar).              *)

HoursPerDay == 24

\* Day(t): the day number of a time value.
UTCDay(t) == t \div HoursPerDay

\* Day number of the local calendar day a time value falls in.
LocalDay(t, off) == (t + off) \div HoursPerDay

\* Local hour within the day.
LocalHour(t, off) == (t + off) % HoursPerDay

\* Day number of year-month-date, month 1..12 and any integer date
\* (the arithmetic behind MakeDay once the month is in range).
DaysFromCivil(y, m, d) ==
    LET yy  == IF m <= 2 THEN y - 1 ELSE y
        era == yy \div 400
        yoe == yy - era * 400
        mp  == IF m > 2 THEN m - 3 ELSE m + 9
        doy == (153 * mp + 2) \div 5 + d - 1
        doe == yoe * 365 + yoe \div 4 - yoe \div 100 + doy
    IN  era * 146097 + doe - 719468

\* YearFromTime / MonthFromTime / DateFromTime of a day number;
\* month is 0-based as in getMonth().
CivilFromDays(z) ==
    LET zz  == z + 719468
        era == zz \div 146097
        doe == zz - era * 146097
        yoe == (doe - doe \div 1460 + doe \div 36524 - doe \div 146096) \div 365
        doy == doe - (365 * yoe + yoe \div 4 - yoe \div 100)
        mp  == (5 * doy + 2) \div 153
        d   == doy - (153 * mp + 2) \div 5 + 1
        m   == IF mp < 10 THEN mp + 3 ELSE mp - 9
        y   == yoe + era * 400 + (IF m <= 2 THEN 1 ELSE 0)
    IN  [year |-> y, month |-> m - 1, date |-> d]

\* MakeDay(year, month, date): month is 0-based and may be out of 0..11,
\* date may be out of the month (0 is the last day of the month before).
MakeDay(year, month, date) ==
    DaysFromCivil(year + (month \div 12), (month % 12) + 1, 1) + date - 1

\* new Date(year, month, date): local midnight of that calendar day.
NewDateYMD(year, month, date, off) ==
    MakeDay(year, month, date) * HoursPerDay - off

GetFullYear(t, off) == CivilFromDays(LocalDay(t, off)).year
GetMonth(t, off)    == CivilFromDays(LocalDay(t, off)).month
GetDate(t, off)     == CivilFromDays(LocalDay(t, off)).date
GetDay(t, off)      == (LocalDay(t, off) + 4) % 7

\* date.setDate(n): same local year, month and time of day, day of month n.
SetDate(t, n, off) ==
    MakeDay(GetFullYear(t, off), GetMonth(t, off), n) * HoursPerDay
        + LocalHour(t, off) - off

\* date.setHours(0, 0, 0, 0): local midnight of the same local day.
SetHours0(t, off) == LocalDay(t, off) * HoursPerDay - off

\* date.setUTCHours(0, 0, 0, 0): UTC midnight of the same UTC day.
SetUTCHours0(t) == UTCDay(t) * HoursPerDay

\* date.toDateString(): "Wed Jan 03 2024", the local weekday, month, day, year.
ToDateString(t, off) ==
    <<GetDay(t, off), GetMonth(t, off), GetDate(t, off), GetFullYear(t, off)>>

\* date.toISOString(): the UTC fields of the time value.
ToISOString(t) ==
    LET c == CivilFromDays(UTCDay(t))
    IN  <<c.year, c.month + 1, c.date, t % HoursPerDay>>

\* new Date(isoString)
ParseISO(s) == DaysFromCivil(s[1], s[2], s[3]) * HoursPerDay + s[4]

----------------------------------------------------------------------------
(* The three streak loops.  A Date is its time value; `off` is the UTC     *)
(* offset of the runtime the loop runs in.                                 *)

StreakCap == 365

\* `${date.getFullYear()}-${date.getMonth()}-${date.getDate()}`
DateKey(t, off) == <<GetFullYear(t, off), GetMonth(t, off), GetDate(t, off)>>

\* A `for (let i = 0; i < 365; i++)` loop is run as its body applied to the
\* loop state [i, streak, checkDate, broke] until the guard fails or the body
\* breaks; `fuel` bounds the iterations still to run and is split in halves.

\* Dashboard stats route: the running checkDate is moved back one day after
\* a hit and after the miss at i = 0; a miss at i > 0 breaks.
\* Slips of the running-checkDate loop: the date is not moved after a hit;
\* the date is not moved after the miss at i = 0; the break waits for i > 1.
habitStreakBodyNoMoveOnHit(s, completedDates, off) ==
    IF ToDateString(s.checkDate, off) \in completedDates
    THEN [s EXCEPT !.streak = @ + 1, !.i = @ + 1]
    ELSE IF s.i > 0
         THEN [s EXCEPT !.broke = TRUE]
         ELSE [s EXCEPT !.checkDate = SetDate(@, GetDate(@, off) - 1, off),
                        !.i = @ + 1]

habitStreakBodyNoMoveOnSkip(s, completedDates, off) ==
    IF ToDateString(s.checkDate, off) \in completedDates
    THEN [s EXCEPT !.streak = @ + 1,
                   !.checkDate = SetDate(@, GetDate(@, off) - 1, off),
                   !.i = @ + 1]
    ELSE IF s.i > 0
         THEN [s EXCEPT !.broke = TRUE]
         ELSE [s EXCEPT !.i = @ + 1]

habitStreakBodyLateBreak(s, completedDates, off) ==
    IF ToDateString(s.checkDate, off) \in completedDates
    THEN [s EXCEPT !.streak = @ + 1,
                   !.checkDate = SetDate(@, GetDate(@, off) - 1, off),
                   !.i = @ + 1]
    ELSE IF s.i > 1
         THEN [s EXCEPT !.broke = TRUE]
         ELSE [s EXCEPT !.checkDate = SetDate(@, GetDate(@, off) - 1, off),
                        !.i = @ + 1]

habitStreakBody(s, completedDates, off) ==
    IF ToDateString(s.checkDate, off) \in completedDates
    THEN [s EXCEPT !.streak = @ + 1,
                   !.checkDate = SetDate(@, GetDate(@, off) - 1, off),
                   !.i = @ + 1]
    ELSE IF s.i > 0
         THEN [s EXCEPT !.broke = TRUE]
         ELSE [s EXCEPT !.checkDate = SetDate(@, GetDate(@, off) - 1, off),
                        !.i = @ + 1]

RECURSIVE habitStreakFor(_, _, _, _)
habitStreakFor(s, fuel, completedDates, off) ==
    IF s.broke \/ s.i >= StreakCap \/ fuel = 0 THEN s
    ELSE IF fuel = 1 THEN habitStreakBody(s, completedDates, off)
    ELSE habitStreakFor(habitStreakFor(s, fuel \div 2, completedDates, off),
                        fuel - (fuel \div 2), completedDates, off)

\* habitStreaks.map body for one habit: the loop over habit.logs, as the
\* loop state it ends in.
\* Slip: let streak = 1.
habitStreakLoopFromOne(habitLogs, today, off) ==
    LET completedDates ==
            {ToDateString(l.date, off) : l \in {x \in habitLogs : x.completed}}
        start == [i |-> 0, streak |-> 1, checkDate |-> today, broke |-> FALSE]
    IN  habitStreakFor(start, StreakCap, completedDates, off)

habitStreakLoop(habitLogs, today, off) ==
    LET completedDates ==
            {ToDateString(l.date, off) : l \in {x \in habitLogs : x.completed}}
        start == [i |-> 0, streak |-> 0, checkDate |-> today, broke |-> FALSE]
    IN  habitStreakFor(start, StreakCap, completedDates, off)

habitStreak(habitLogs, today, off) == habitStreakLoop(habitLogs, today, off).streak

\* Export route: checkDate is recomputed from today in every iteration.
\* Slip: the first gap breaks the loop, today included.
calculateStreakBodyBreakAlways(s, today, completedDates, off) ==
    LET checkDate == SetDate(today, GetDate(today, off) - s.i, off)
    IN  IF ToDateString(checkDate, off) \in completedDates
        THEN [s EXCEPT !.streak = @ + 1, !.i = @ + 1]
        ELSE [s EXCEPT !.broke = TRUE]

calculateStreakBody(s, today, completedDates, off) ==
    LET checkDate == SetDate(today, GetDate(today, off) - s.i, off)
    IN  IF ToDateString(checkDate, off) \in completedDates
        THEN [s EXCEPT !.streak = @ + 1, !.i = @ + 1]
        ELSE IF s.i > 0
             THEN [s EXCEPT !.broke = TRUE]
             ELSE [s EXCEPT !.i = @ + 1]

RECURSIVE calculateStreakFor(_, _, _, _, _)
calculateStreakFor(s, fuel, today, completedDates, off) ==
    IF s.broke \/ s.i >= StreakCap \/ fuel = 0 THEN s
    ELSE IF fuel = 1 THEN calculateStreakBody(s, today, completedDates, off)
    ELSE calculateStreakFor(
             calculateStreakFor(s, fuel \div 2, today, completedDates, off),
             fuel - (fuel \div 2), today, completedDates, off)

\* calculateStreak(logs), as the loop state it ends in; `clock` is what the
\* new Date() in its body returns.
calculateStreakLoop(habitLogs, clock, off) ==
    LET completedDates ==
            {ToDateString(l.date, off) : l \in {x \in habitLogs : x.completed}}
        today == SetHours0(clock, off)
        start == [i |-> 0, streak |-> 0, broke |-> FALSE]
    IN  calculateStreakFor(start, StreakCap, today, completedDates, off)

calculateStreak(habitLogs, clock, off) ==
    calculateStreakLoop(habitLogs, clock, off).streak

\* HabitCalendar: the set of year-month-date keys of the completed logs.
CalendarCompletedDates(habitLogs, off) ==
    {DateKey(l.date, off) : l \in {x \in habitLogs : x.completed}}

isCompleted(completedDates, date, off) == DateKey(date, off) \in completedDates

\* Slips: the walk starts at yesterday; the first gap breaks, today included.
currentStreakBodyFromYesterday(s, today, completedDates, off) ==
    LET checkDate == SetDate(today, GetDate(today, off) - s.i - 1, off)
    IN  IF DateKey(checkDate, off) \in completedDates
        THEN [s EXCEPT !.streak = @ + 1, !.i = @ + 1]
        ELSE IF s.i > 0
             THEN [s EXCEPT !.broke = TRUE]
             ELSE [s EXCEPT !.i = @ + 1]

currentStreakBodyBreakAlways(s, today, completedDates, off) ==
    LET checkDate == SetDate(today, GetDate(today, off) - s.i, off)
    IN  IF DateKey(checkDate, off) \in completedDates
        THEN [s EXCEPT !.streak = @ + 1, !.i = @ + 1]
        ELSE [s EXCEPT !.broke = TRUE]

currentStreakBody(s, today, completedDates, off) ==
    LET checkDate == SetDate(today, GetDate(today, off) - s.i, off)
    IN  IF DateKey(checkDate, off) \in completedDates
        THEN [s EXCEPT !.streak = @ + 1, !.i = @ + 1]
        ELSE IF s.i > 0
             THEN [s EXCEPT !.broke = TRUE]
             ELSE [s EXCEPT !.i = @ + 1]

RECURSIVE currentStreakFor(_, _, _, _, _)
currentStreakFor(s, fuel, today, completedDates, off) ==
    IF s.broke \/ s.i >= StreakCap \/ fuel = 0 THEN s
    ELSE IF fuel = 1 THEN currentStreakBody(s, today, completedDates, off)
    ELSE currentStreakFor(
             currentStreakFor(s, fuel \div 2, today, completedDates, off),
             fuel - (fuel \div 2), today, completedDates, off)

\* HabitCalendar.currentStreak, as the loop state it ends in; `clock` is
\* what the new Date() in the useMemo body returns.
currentStreakLoop(completedDates, clock, off) ==
    LET today == SetHours0(clock, off)
        start == [i |-> 0, streak |-> 0, broke |-> FALSE]
    IN  currentStreakFor(start, StreakCap, today, completedDates, off)

currentStreak(completedDates, clock, off) ==
    currentStreakLoop(completedDates, clock, off).streak

----------------------------------------------------------------------------
(* The queries that hand the logs to the loops.                            *)

\* GET /api/dashboard/stats: logs: { where: { date: { gte: weekAgo } } }
\* Slip: lte for gte, the query returns the logs up to a week ago.
DashboardLogsBefore(table, today, off) ==
    LET weekAgo == SetDate(today, GetDate(today, off) - 7, off)
    IN  {l \in table : l.date <= weekAgo}

DashboardLogs(table, today, off) ==
    LET weekAgo == SetDate(today, GetDate(today, off) - 7, off)
    IN  {l \in table : l.date >= weekAgo}

\* GET /api/export: include: { logs: ... } with no where clause.
ExportLogs(table) == table

\* GET /api/habits: gte: new Date(new Date().setDate(new Date().getDate() - 60)),
\* then NextResponse.json: every date travels as an ISO string.
HabitsLogs(table, clock, off) ==
    LET since == SetDate(clock, GetDate(clock, off) - 60, off)
    IN  {[l EXCEPT !.date = ParseISO(ToISOString(l.date))] :
            l \in {x \in table : x.date >= since}}

----------------------------------------------------------------------------
(* Values of the state.                                                    *)

Sites  == {"dashboard", "export", "calendar"}
NotRun == [streak |-> -1]
NoNote    == "null"       \* the note column holding NULL
Undefined == "undefined"  \* a field the JSON body does not carry
NoDate    == <<>>         \* body.date absent
NoDay     == -1           \* no Date
NoStats   == [total |-> -1]
NoLog     == [id |-> 0]   \* findUnique found nothing; no row in the response
NoTimer   == [mode |-> "unmounted"]  \* no PomodoroTimer on the page
NoCenter   == [mounted |-> FALSE]  \* no NotificationCenter on the page
NoPageView == [mounted |-> FALSE]  \* no PageView on the page

Min(a, b) == IF a < b THEN a ELSE b
Max(a, b) == IF a > b THEN a ELSE b

\* POST /log writes UTC midnights only: the stored date that a reader in
\* zone `off` reads back as local day d.
StoredDateReadAs(d, off) ==
    IF off >= 0 THEN d * HoursPerDay ELSE (d + 1) * HoursPerDay

Row(id, habit, date, completed, note) ==
    [id |-> id, habitId |-> habit, date |-> date,
     completed |-> completed, note |-> note]

----------------------------------------------------------------------------
(* Specification SpecStreak: a table of one habit's logs, a clock and a    *)
(* zone are drawn; each call site then computes its streak once.           *)

RecentDays == 4
Offsets    == {-5, 0, 2}
\* 2024-03-01T01:00Z and 2024-03-01T23:00Z: the walk back from today
\* crosses the end of February of a leap year at once.
Clocks     == {MakeDay(2024, 2, 1) * HoursPerDay + 1,
               MakeDay(2024, 2, 1) * HoursPerDay + 23}
\* A run of completed days older than the recent ones; the long runs bring
\* the whole history to one day under, at, and one day over the loop's cap,
\* the middle ones to the edges of the week the dashboard queries and of the
\* 60 days GET /api/habits returns.
RunLengths == {0, 2, StreakCap - RecentDays - 1, StreakCap - RecentDays,
               StreakCap - RecentDays + 1}
              \cup {7 - RecentDays, 8 - RecentDays, 9 - RecentDays}
              \cup {59 - RecentDays, 60 - RecentDays, 61 - RecentDays,
                    62 - RecentDays}

InitStreak ==
    /\ now \in Clocks
    /\ tz \in Offsets
    /\ \E status \in [0..RecentDays -> {"none", "done", "undone"}],
          run \in RunLengths :
          LET today == LocalDay(now, tz)
              recent == {Row(today + 1 - k, "h1",
                             StoredDateReadAs(today + 1 - k, tz),
                             status[k] = "done", NoNote) :
                            k \in {j \in 0..RecentDays : status[j] # "none"}}
              older == {Row(today - RecentDays - j, "h1",
                            StoredDateReadAs(today - RecentDays - j, tz),
                            TRUE, NoNote) : j \in 0..(run - 1)}
          IN  /\ run > 2 => \A k \in 2..RecentDays : status[k] = "done"
              /\ logs = recent \cup older
    /\ nextId = 0
    /\ result = [s \in Sites |-> NotRun]
    /\ req = <<>>
    /\ habits = {}
    /\ currentMonth = NoDay
    /\ monthStats = NoStats
    /\ habitTable = <<>>
    /\ timer = NoTimer
    /\ center = NoCenter
    /\ pageView = NoPageView

Answer(handed, today, streak) ==
    [logs |-> handed, today |-> today, streak |-> streak]

\* GET /api/dashboard/stats, the habitStreaks entry of the habit.
DashboardStreak ==
    /\ result["dashboard"] = NotRun
    /\ LET today == SetHours0(now, tz)
           handed == DashboardLogs(logs, today, tz)
       IN  result' = [result EXCEPT !["dashboard"] =
                         Answer(handed, today, habitStreak(handed, today, tz))]
    /\ UNCHANGED <<center, pageView, habitTable, timer, now, tz, logs, nextId, req, habits, currentMonth, monthStats>>

\* GET /api/export: calculateStreak(habit.logs).
ExportStreak ==
    /\ result["export"] = NotRun
    /\ LET handed == ExportLogs(logs)
       IN  result' = [result EXCEPT !["export"] =
                         Answer(handed, SetHours0(now, tz),
                                calculateStreak(handed, now, tz))]
    /\ UNCHANGED <<center, pageView, habitTable, timer, now, tz, logs, nextId, req, habits, currentMonth, monthStats>>

\* Habits page: fetchHabits, then HabitCalendar renders currentStreak.
CalendarStreak ==
    /\ result["calendar"] = NotRun
    /\ LET handed == HabitsLogs(logs, now, tz)
       IN  result' = [result EXCEPT !["calendar"] =
                         Answer(handed, SetHours0(now, tz),
                                currentStreak(CalendarCompletedDates(handed, tz),
                                              now, tz))]
    /\ UNCHANGED <<center, pageView, habitTable, timer, now, tz, logs, nextId, req, habits, currentMonth, monthStats>>

NextStreak == DashboardStreak \/ ExportStreak \/ CalendarStreak

SpecStreak == InitStreak /\ [][NextStreak]_vars

----------------------------------------------------------------------------
(* Streak claims.  The days are read off the logs a call site was handed,  *)
(* as local days of the zone the loop runs in.                             *)

Ran(s) == result[s] # NotRun

\* Local day number of the reference day of call site s.
RefDay(s) == LocalDay(result[s].today, tz)

\* Local days with a completed entry among the logs handed to s.
DoneDays(s) == {LocalDay(l.date, tz) : l \in {x \in result[s].logs : x.completed}}

\* Local days with any entry among the logs handed to s.
EntryDays(s) == {LocalDay(l.date, tz) : l \in result[s].logs}

DoneOn(s, d) == d \in DoneDays(s)

\* Length of the run of completed days that ends at day d (0 if d is not completed).
RunBack(s, d) ==
    LET D == DoneDays(s)
    IN  CHOOSE k \in 0..Cardinality(D) :
            /\ (d - k) \notin D
            /\ \A j \in 0..(k - 1) : (d - j) \in D

Earliest(s) == CHOOSE d \in EntryDays(s) : \A e \in EntryDays(s) : d <= e

\* C1 as stated: today not completed, the N days before it completed and
\* day today-N-1 not completed: the streak is exactly N, for every N.
C1_SkipTodayAnyN ==
    \A s \in Sites :
        (Ran(s) /\ ~DoneOn(s, RefDay(s)))
            => result[s].streak = RunBack(s, RefDay(s) - 1)

\* C1 amended: in each streak loop, when today is not completed, the N days
\* before it are and day today-N-1 is not, the streak is min(N, 364): today
\* neither adds to nor ends the streak, and the 365 iterations of which the
\* first is spent on today leave 364 days to count.
C1_SkipTodayCapped ==
    \A s \in Sites :
        (Ran(s) /\ ~DoneOn(s, RefDay(s)))
            => result[s].streak = Min(RunBack(s, RefDay(s) - 1), StreakCap - 1)

C1_Witness ==
    \E s \in Sites :
        /\ Ran(s)
        /\ ~DoneOn(s, RefDay(s))
        /\ RunBack(s, RefDay(s) - 1) >= 3
        /\ result[s].streak = RunBack(s, RefDay(s) - 1)

\* C2 as stated: every day of [today-N, today] completed (N the longest such):
\* the streak is N + 1, also when N + 1 exceeds the 365 iterations.
C2_FullRunAnyN ==
    \A s \in Sites :
        (Ran(s) /\ DoneOn(s, RefDay(s)))
            => result[s].streak = RunBack(s, RefDay(s))

\* C2 amended: when every day of [today-N, today] is completed and day
\* today-N-1 is not, the streak is min(N + 1, 365).
C2_FullRunCapped ==
    \A s \in Sites :
        (Ran(s) /\ DoneOn(s, RefDay(s)))
            => result[s].streak = Min(RunBack(s, RefDay(s)), StreakCap)

C2_Witness ==
    \E s \in Sites :
        /\ Ran(s)
        /\ DoneOn(s, RefDay(s))
        /\ RunBack(s, RefDay(s)) >= 4
        /\ result[s].streak = RunBack(s, RefDay(s))

\* C3 as stated: yesterday not completed: the streak is 0, whether or not
\* today is completed.
C3_GapYesterdayZero ==
    \A s \in Sites :
        (Ran(s) /\ ~DoneOn(s, RefDay(s) - 1)) => result[s].streak = 0

\* C3 amended: when yesterday is not completed the streak is 0 if today is
\* not completed and 1 if today is completed, regardless of older history.
C3_GapYesterday ==
    \A s \in Sites :
        (Ran(s) /\ ~DoneOn(s, RefDay(s) - 1))
            => result[s].streak = (IF DoneOn(s, RefDay(s)) THEN 1 ELSE 0)

\* Older history exists behind the gap and does not count.
C3_Witness ==
    \E s \in Sites :
        /\ Ran(s)
        /\ ~DoneOn(s, RefDay(s) - 1)
        /\ DoneOn(s, RefDay(s) - 2)
        /\ DoneOn(s, RefDay(s))
        /\ result[s].streak = 1

\* C4: the streak is 0 exactly when today and yesterday are both not
\* completed; otherwise it is at least 1.
C4_ZeroIff ==
    \A s \in Sites :
        Ran(s) =>
            /\ (result[s].streak = 0)
                   <=> (~DoneOn(s, RefDay(s)) /\ ~DoneOn(s, RefDay(s) - 1))
            /\ result[s].streak >= 0

\* Today and yesterday not completed, older history behind them: streak 0.
C4_Witness ==
    \E s \in Sites :
        /\ Ran(s)
        /\ ~DoneOn(s, RefDay(s))
        /\ ~DoneOn(s, RefDay(s) - 1)
        /\ DoneOn(s, RefDay(s) - 2)
        /\ result[s].streak = 0

\* C5 as stated: 0 <= streak <= referenceDate - earliest entry date.
C5_BoundByDaysSince ==
    \A s \in Sites :
        Ran(s) =>
            /\ result[s].streak >= 0
            /\ result[s].logs # {} => result[s].streak <= RefDay(s) - Earliest(s)

\* C5 amended: the streak is non-negative, 0 when there is no entry, and no
\* larger than the number of days from the earliest entry through the
\* reference day, both counted (referenceDate - earliest + 1, or 0 when the
\* earliest entry is after the reference day).
C5_BoundByDaysThrough ==
    \A s \in Sites :
        Ran(s) =>
            /\ result[s].streak >= 0
            /\ result[s].logs = {} => result[s].streak = 0
            /\ result[s].logs # {} =>
                   result[s].streak <= Max(0, RefDay(s) - Earliest(s) + 1)

\* The bound is met: every day from the earliest entry through today counts.
C5_Witness ==
    \E s \in Sites :
        /\ Ran(s)
        /\ result[s].logs # {}
        /\ result[s].streak >= 2
        /\ result[s].streak = RefDay(s) - Earliest(s) + 1

\* C6: call sites handed the same completed days with the same reference
\* day return the same streak.
C6_SitesAgree ==
    \A s1, s2 \in Sites :
        (Ran(s1) /\ Ran(s2) /\ DoneDays(s1) = DoneDays(s2)
            /\ RefDay(s1) = RefDay(s2))
            => result[s1].streak = result[s2].streak

\* All three sites ran on the same completed days, today is not completed
\* and the streak is carried by the days before it.
C6_Witness ==
    /\ \A s \in Sites : Ran(s)
    /\ \A s \in Sites : DoneDays(s) = DoneDays("export")
    /\ ~DoneOn("export", RefDay("export"))
    /\ result["export"].streak >= 2
    /\ \A s \in Sites : result[s].streak = result["export"].streak


\* Days of the trailing window a site reads: the dashboard asks for the logs
\* of a week, the habits page is sent those of the last 60 days.
WindowDays(s) == IF s = "dashboard" THEN 7 ELSE 60

\* The run of days the streak over the full history (the export's) counts.
FullFirst ==
    IF DoneOn("export", RefDay("export")) THEN RefDay("export")
    ELSE RefDay("export") - 1
FullLast == FullFirst - result["export"].streak + 1

\* C13: the streak over the logs inside a trailing window (dashboard, habits
\* page) is at most the streak over the full history (export), and equals it
\* whenever every day the full streak counts lies inside the window.
C13_WindowLowerBound ==
    \A s \in {"dashboard", "calendar"} :
        (Ran(s) /\ Ran("export")) =>
            /\ result[s].streak <= result["export"].streak
            /\ (result["export"].streak = 0
                   \/ FullLast >= RefDay(s) - WindowDays(s) + 1)
                  => result[s].streak = result["export"].streak

\* A history of about a year: the dashboard's streak stops at the edge of its
\* week, the calendar's at the edge of its 60 days, the export's at the cap.
C13_Witness ==
    /\ \A s \in Sites : Ran(s)
    /\ result["dashboard"].streak >= 7
    /\ result["dashboard"].streak < result["calendar"].streak
    /\ result["calendar"].streak < result["export"].streak
    /\ result["export"].streak = StreakCap

----------------------------------------------------------------------------
(* POST /api/habits/[habitId]/log.  A request runs in steps separated by   *)
(* the handler's awaits on the database: the checks up to the body, the    *)
(* findUnique, and the one write (delete, update or create).               *)

NoSession == "none"

\* The habit table: each habit and the user it belongs to; findFirst with
\* { id: habitId, userId } returns a habit only to its owner, and none for
\* an id that is not in the table.
NoOwner == "nobody"
HabitOwner(habitId) ==
    CASE habitId = "h1" -> "u1"
      [] habitId = "h2" -> "u2"
      [] OTHER -> NoOwner

\* !note
Falsy(note) == note \in {Undefined, NoNote, ""}

\* completed === false && !note
ShouldDelete(completed, note) == completed = "false" /\ Falsy(note)

\* completed ?? !existingLog.completed
\* Slip: the default of the create branch, completed ?? true.
UpdatedCompletedDefaultTrue(completed, existingLog) ==
    IF completed = Undefined THEN TRUE ELSE completed = "true"

UpdatedCompleted(completed, existingLog) ==
    IF completed = Undefined THEN ~existingLog.completed ELSE completed = "true"

\* ...(note !== undefined && { note })
UpdatedNote(note, row) == IF note = Undefined THEN row.note ELSE note

\* completed ?? true
CreatedCompleted(completed) ==
    IF completed = Undefined THEN TRUE ELSE completed = "true"

\* note: undefined is stored as NULL
CreatedNote(note) == IF note = Undefined THEN NoNote ELSE note

\* The date being left as sent is the slip of a handler that forgets the
\* normalisation.
LogDateNotNormalized(date) == ParseISO(date)

\* const logDate = new Date(date); logDate.setUTCHours(0, 0, 0, 0)
LogDate(date) == SetUTCHours0(ParseISO(date))

\* The unique index behind the habitId_date selector of findUnique: a create
\* of a second row with the same habit and date is refused.
UniqueViolation(table, habitId, date) ==
    \E l \in table : l.habitId = habitId /\ l.date = date

\* db.habitLog.findUnique({ where: { habitId_date: { habitId, date } } })
FindUniqueLog(table, habitId, date) ==
    IF \E l \in table : l.habitId = habitId /\ l.date = date
    THEN CHOOSE l \in table : l.habitId = habitId /\ l.date = date
    ELSE NoLog

Idle ==
    [pc |-> "idle", session |-> NoSession, habitId |-> "h1",
     body |-> [date |-> NoDate, completed |-> Undefined, note |-> Undefined],
     clicked |-> NoDay, logDate |-> NoDay, existingLog |-> NoLog,
     status |-> 0, log |-> NoLog]

Received(session, habitId, body, clicked) ==
    [Idle EXCEPT !.session = session, !.habitId = habitId, !.body = body,
                 !.clicked = clicked]

\* Request slots are taken in order.
Free(r) ==
    /\ req[r].pc = "idle"
    /\ IF r = 1 THEN TRUE ELSE req[r - 1].pc # "idle"

\* if (!session?.user?.id) return 401
Reject401(r, session, habitId, body, clicked) ==
    /\ Free(r)
    /\ session = NoSession
    /\ req' = [req EXCEPT ![r] =
                  [Received(session, habitId, body, clicked) EXCEPT
                      !.pc = "done", !.status = 401]]
    /\ UNCHANGED <<center, pageView, habitTable, timer, now, tz, logs, nextId, result, habits, currentMonth, monthStats>>

\* if (!habit) return 404
\* Slip: the habit is looked up before the session is checked.
Reject404BeforeSession(r, session, habitId, body, clicked) ==
    /\ Free(r)
    /\ HabitOwner(habitId) # session
    /\ req' = [req EXCEPT ![r] =
                  [Received(session, habitId, body, clicked) EXCEPT
                      !.pc = "done", !.status = 404]]
    /\ UNCHANGED <<center, pageView, habitTable, timer, now, tz, logs, nextId, result, habits, currentMonth, monthStats>>

Reject404(r, session, habitId, body, clicked) ==
    /\ Free(r)
    /\ session # NoSession
    /\ HabitOwner(habitId) # session
    /\ req' = [req EXCEPT ![r] =
                  [Received(session, habitId, body, clicked) EXCEPT
                      !.pc = "done", !.status = 404]]
    /\ UNCHANGED <<center, pageView, habitTable, timer, now, tz, logs, nextId, result, habits, currentMonth, monthStats>>

\* if (!date) return 400
Reject400(r, session, habitId, body, clicked) ==
    /\ Free(r)
    /\ session # NoSession
    /\ HabitOwner(habitId) = session
    /\ body.date = NoDate
    /\ req' = [req EXCEPT ![r] =
                  [Received(session, habitId, body, clicked) EXCEPT
                      !.pc = "done", !.status = 400]]
    /\ UNCHANGED <<center, pageView, habitTable, timer, now, tz, logs, nextId, result, habits, currentMonth, monthStats>>

\* The checks pass; logDate is normalised and the handler awaits findUnique.
Accept(r, session, habitId, body, clicked) ==
    /\ Free(r)
    /\ session # NoSession
    /\ HabitOwner(habitId) = session
    /\ body.date # NoDate
    /\ req' = [req EXCEPT ![r] =
                  [Received(session, habitId, body, clicked) EXCEPT
                      !.pc = "find", !.logDate = LogDate(body.date)]]
    /\ UNCHANGED <<center, pageView, habitTable, timer, now, tz, logs, nextId, result, habits, currentMonth, monthStats>>

\* const existingLog = await db.habitLog.findUnique(...)
FindUnique(r) ==
    /\ req[r].pc = "find"
    /\ req' = [req EXCEPT ![r].pc = "write",
                          ![r].existingLog =
                              FindUniqueLog(logs, req[r].habitId, req[r].logDate)]
    /\ UNCHANGED <<center, pageView, habitTable, timer, now, tz, logs, nextId, result, habits, currentMonth, monthStats>>

\* await db.habitLog.delete({ where: { id: existingLog.id } }); log = null
DeleteLog(r) ==
    /\ req[r].pc = "write"
    /\ req[r].existingLog # NoLog
    /\ ShouldDelete(req[r].body.completed, req[r].body.note)
    /\ \E l \in logs : l.id = req[r].existingLog.id
    /\ logs' = {l \in logs : l.id # req[r].existingLog.id}
    /\ req' = [req EXCEPT ![r].pc = "done", ![r].status = 200, ![r].log = NoLog]
    /\ UNCHANGED <<center, pageView, habitTable, timer, now, tz, nextId, result, habits, currentMonth, monthStats>>

\* log = await db.habitLog.update({ where: { id: existingLog.id }, data })
UpdateLog(r) ==
    /\ req[r].pc = "write"
    /\ req[r].existingLog # NoLog
    /\ ~ShouldDelete(req[r].body.completed, req[r].body.note)
    /\ \E l \in logs :
          /\ l.id = req[r].existingLog.id
          /\ LET updated ==
                     [l EXCEPT !.completed =
                                   UpdatedCompleted(req[r].body.completed,
                                                    req[r].existingLog),
                               !.note = UpdatedNote(req[r].body.note, l)]
             IN  /\ logs' = (logs \ {l}) \cup {updated}
                 /\ req' = [req EXCEPT ![r].pc = "done", ![r].status = 200,
                                       ![r].log = updated]
    /\ UNCHANGED <<center, pageView, habitTable, timer, now, tz, nextId, result, habits, currentMonth, monthStats>>

\* log = await db.habitLog.create({ data })
CreateLog(r) ==
    /\ req[r].pc = "write"
    /\ req[r].existingLog = NoLog
    /\ ~UniqueViolation(logs, req[r].habitId, req[r].logDate)
    /\ LET created == Row(nextId + 1, req[r].habitId, req[r].logDate,
                          CreatedCompleted(req[r].body.completed),
                          CreatedNote(req[r].body.note))
       IN  /\ logs' = logs \cup {created}
           /\ req' = [req EXCEPT ![r].pc = "done", ![r].status = 200,
                                 ![r].log = created]
    /\ nextId' = nextId + 1
    /\ UNCHANGED <<center, pageView, habitTable, timer, now, tz, result, habits, currentMonth, monthStats>>

\* The write throws and the handler answers 500 from its catch: the row to
\* update or delete is gone ...
RowGoneThrows(r) ==
    /\ req[r].pc = "write"
    /\ req[r].existingLog # NoLog
    /\ ~\E l \in logs : l.id = req[r].existingLog.id
    /\ req' = [req EXCEPT ![r].pc = "done", ![r].status = 500]
    /\ UNCHANGED <<center, pageView, habitTable, timer, now, tz, logs, nextId, result, habits, currentMonth, monthStats>>

\* ... or the create meets the unique index.
CreateThrows(r) ==
    /\ req[r].pc = "write"
    /\ req[r].existingLog = NoLog
    /\ UniqueViolation(logs, req[r].habitId, req[r].logDate)
    /\ req' = [req EXCEPT ![r].pc = "done", ![r].status = 500]
    /\ UNCHANGED <<center, pageView, habitTable, timer, now, tz, logs, nextId, result, habits, currentMonth, monthStats>>

----------------------------------------------------------------------------
(* Specification SpecLog: clients of the API post to the log route, their  *)
(* requests interleaving at the awaits.                                    *)

MaxRequests == 2
Requests == 1..MaxRequests

\* Two instants of 2024-03-01 (UTC), early and late in the day.
ApiDates == {ToISOString(MakeDay(2024, 2, 1) * HoursPerDay + 1),
             ToISOString(MakeDay(2024, 2, 1) * HoursPerDay + 23)}

ApiBodies ==
    [date : ApiDates, completed : {Undefined, "true", "false"},
     note : {Undefined, "memo"}]

\* Every body from the owner of the habit, and the requests that are turned
\* away: a habit that does not exist, no session, another user's habit, no
\* date (alone and together).
ApiCalls ==
    {[session |-> "u1", habitId |-> "h1", body |-> b] : b \in ApiBodies}
    \cup
    {[session |-> "u1", habitId |-> "h0",
      body |-> [date |-> ToISOString(MakeDay(2024, 2, 1) * HoursPerDay + 1),
                completed |-> Undefined, note |-> Undefined]]}
    \cup
    {[session |-> ses, habitId |-> h,
      body |-> [date |-> d, completed |-> Undefined, note |-> Undefined]] :
        ses \in {NoSession, "u1"}, h \in {"h1", "h2"},
        d \in {NoDate, ToISOString(MakeDay(2024, 2, 1) * HoursPerDay + 1)}}

InitLog ==
    /\ now = MakeDay(2024, 2, 1) * HoursPerDay + 1
    /\ tz = 0
    /\ \E n \in {NoNote, "memo"}, present \in BOOLEAN :
          logs = IF present
                 THEN {Row(1, "h1", MakeDay(2024, 2, 1) * HoursPerDay, TRUE, n)}
                 ELSE {}
    /\ nextId = Cardinality(logs)
    /\ result = [s \in Sites |-> NotRun]
    /\ req = [r \in Requests |-> Idle]
    /\ habits = {}
    /\ currentMonth = NoDay
    /\ monthStats = NoStats
    /\ habitTable = <<>>
    /\ timer = NoTimer
    /\ center = NoCenter
    /\ pageView = NoPageView

NextLog ==
    \E r \in Requests :
        \/ \E c \in ApiCalls : Reject401(r, c.session, c.habitId, c.body, NoDay)
        \/ \E c \in ApiCalls : Reject404(r, c.session, c.habitId, c.body, NoDay)
        \/ \E c \in ApiCalls : Reject400(r, c.session, c.habitId, c.body, NoDay)
        \/ \E c \in ApiCalls : Accept(r, c.session, c.habitId, c.body, NoDay)
        \/ FindUnique(r)
        \/ DeleteLog(r)
        \/ UpdateLog(r)
        \/ CreateLog(r)
        \/ RowGoneThrows(r)
        \/ CreateThrows(r)

SpecLog == InitLog /\ [][NextLog]_vars

\* C7: the log holds at most one entry per habit and UTC day, and every
\* stored date is a UTC midnight.
C7_OneEntryPerDay ==
    /\ \A l1, l2 \in logs :
          (l1.habitId = l2.habitId /\ UTCDay(l1.date) = UTCDay(l2.date))
              => l1 = l2
    /\ \A l \in logs : l.date % HoursPerDay = 0

\* Two requests for the same habit and day both found no entry; one created
\* it and the other's create was refused.
C7_Witness ==
    \E r1, r2 \in Requests :
        /\ r1 # r2
        /\ req[r1].pc = "done" /\ req[r2].pc = "done"
        /\ req[r1].existingLog = NoLog /\ req[r2].existingLog = NoLog
        /\ req[r1].status = 200 /\ req[r2].status = 500
        /\ req[r1].body.date # req[r2].body.date
        /\ Cardinality(logs) = 1

\* C8: no stored entry has completed = false together with no note.
C8_Compaction ==
    \A l \in logs : ~(l.completed = FALSE /\ Falsy(l.note))

\* The request carried a date and nothing else.
DateOnly(r) ==
    /\ req[r].body.date # NoDate
    /\ req[r].body.completed = Undefined
    /\ req[r].body.note = Undefined

\* Whether an entry, or the absence of one, says the day is completed.
SaysCompleted(log) == IF log = NoLog THEN FALSE ELSE log.completed

\* Request r1 has toggled a habit's day and request r2, whose findUnique
\* returned the entry r1 wrote, is about to write for the same habit and
\* day, no other request being under way.
RunsAfter(r2, r1) ==
    /\ r1 # r2
    /\ DateOnly(r1) /\ DateOnly(r2)
    /\ req[r1].pc = "done" /\ req[r1].status = 200
    /\ req[r2].pc = "write"
    /\ req[r1].habitId = req[r2].habitId
    /\ req[r1].logDate = req[r2].logDate
    /\ req[r2].existingLog = req[r1].log
    /\ \A r \in Requests \ {r1, r2} : req[r].pc = "idle"

\* C22: a date-only POST creates a completed entry for a day without entry
\* and flips the flag of the day's entry otherwise; of two such requests for
\* the same habit and day run one after the other, the second leaves the
\* day completed exactly if it was completed before the first.
C22_ToggleTwice ==
    [][\A r2 \in Requests :
          (DateOnly(r2) /\ req[r2].pc = "write" /\ req'[r2].status = 200) =>
              /\ IF req[r2].existingLog = NoLog
                 THEN /\ req'[r2].log.completed
                      /\ req'[r2].log.date = req[r2].logDate
                 ELSE /\ req'[r2].log.id = req[r2].existingLog.id
                      /\ req'[r2].log.completed = ~req[r2].existingLog.completed
              /\ req'[r2].log \in logs'
              /\ \A r1 \in Requests :
                    RunsAfter(r2, r1) =>
                        SaysCompleted(FindUniqueLog(logs', req[r2].habitId,
                                                    req[r2].logDate))
                            = SaysCompleted(req[r1].existingLog)]_vars

\* Request r2 has written after r1.
RanAfter(r2, r1) ==
    /\ r1 # r2
    /\ DateOnly(r1) /\ DateOnly(r2)
    /\ req[r1].pc = "done" /\ req[r1].status = 200
    /\ req[r2].pc = "done" /\ req[r2].status = 200
    /\ req[r1].habitId = req[r2].habitId
    /\ req[r1].logDate = req[r2].logDate
    /\ req[r2].existingLog = req[r1].log

\* A day without entry is toggled twice, at two instants of the day: the
\* first request creates the completed entry, the second finds it and
\* leaves it saying not completed.
C22_Witness ==
    \E r1, r2 \in Requests :
        /\ RanAfter(r2, r1)
        /\ req[r1].body.date # req[r2].body.date
        /\ req[r1].existingLog = NoLog
        /\ req[r1].log.completed
        /\ logs = {req[r2].log}
        /\ ~req[r2].log.completed

\* The answer the handler's checks give a request, 0 when they all pass.
Rejection(r) ==
    CASE req[r].session = NoSession -> 401
      [] req[r].session # NoSession
             /\ HabitOwner(req[r].habitId) # req[r].session -> 404
      [] req[r].session # NoSession
             /\ HabitOwner(req[r].habitId) = req[r].session
             /\ req[r].body.date = NoDate -> 400
      [] OTHER -> 0

\* C23: a request without session is answered 401, else one for a habit
\* that does not exist or is another user's 404, else one without date 400;
\* the step that answers so leaves the log as it is, and the request has
\* read and written no entry.
C23_RejectedLeaveLog ==
    [][\A r \in Requests :
          (req[r].pc # "done" /\ req'[r].pc = "done") =>
              /\ req'[r].status \in {401, 404, 400} <=> Rejection(r)' # 0
              /\ req'[r].status \in {401, 404, 400} =>
                    /\ req'[r].status = Rejection(r)'
                    /\ logs' = logs
                    /\ nextId' = nextId
                    /\ req[r].pc = "idle"
                    /\ req'[r].existingLog = NoLog
                    /\ req'[r].log = NoLog]_vars

\* One request lacked session, habit and date and was answered 401, another
\* came with a session for a habit that does not exist and was answered
\* 404; the log holds its one entry as before.
C23_Witness ==
    /\ \E r1, r2 \in Requests :
          /\ req[r1].pc = "done" /\ req[r1].status = 401
          /\ req[r1].habitId = "h2" /\ req[r1].body.date = NoDate
          /\ req[r2].pc = "done" /\ req[r2].status = 404
          /\ req[r2].session = "u1" /\ req[r2].habitId = "h0"
    /\ logs = {Row(1, "h1", MakeDay(2024, 2, 1) * HoursPerDay, TRUE, NoNote)}

\* C25: when two date-only requests for the same habit and day have both
\* read the day's entry before either has written and both are answered
\* 200, the second write leaves the day as the two requests run one after
\* the other leave it: completed exactly if it was completed before.
C25_NoLostToggle ==
    [][\A r1, r2 \in Requests :
          (/\ r1 # r2
           /\ DateOnly(r1) /\ DateOnly(r2)
           /\ req[r1].habitId = req[r2].habitId
           /\ req[r1].logDate = req[r2].logDate
           /\ req[r1].pc = "done" /\ req[r1].status = 200
           /\ req[r1].existingLog = req[r2].existingLog
           /\ req[r2].pc = "write" /\ req'[r2].status = 200
           /\ \A r \in Requests \ {r1, r2} : req[r].pc = "idle")
              => SaysCompleted(FindUniqueLog(logs', req[r2].habitId,
                                             req[r2].logDate))
                     = SaysCompleted(req[r2].existingLog)]_vars

----------------------------------------------------------------------------
(* The habits page: the HabitCalendar of one habit, its month statistics,  *)
(* the month navigation and the click on a day.                            *)

\* Math.round(x) for x = num / den >= 0: the nearest integer, halves up.
\* The program computes (completed / total) * 100 in doubles; for every
\* total up to 39 the double rounds as the exact quotient does (the first
\* difference is 23 / 40: 57.49999999999999 rounds to 57, the exact 57.5 to
\* 58), and a month counts at most 31 days.
\* Truncation is the slip of a Math.floor in its place.
MathFloor(num, den) == num \div den

MathRound(num, den) == (2 * num + den) \div (2 * den)

\* new Date(year, month + 1, 0).getDate()
DaysInMonth(month, off) ==
    GetDate(NewDateYMD(GetFullYear(month, off), GetMonth(month, off) + 1, 0, off),
            off)

\* HabitCalendar.monthStats
MonthStats(habitLogs, month, clock, off) ==
    LET today == clock
        daysInMonth == DaysInMonth(month, off)
        daysToCount ==
            IF GetMonth(month, off) = GetMonth(today, off)
                   /\ GetFullYear(month, off) = GetFullYear(today, off)
            THEN GetDate(today, off)
            ELSE daysInMonth
        completedDates == CalendarCompletedDates(habitLogs, off)
        completed ==
            Cardinality({d \in 1..daysToCount :
                isCompleted(completedDates,
                            NewDateYMD(GetFullYear(month, off),
                                       GetMonth(month, off), d, off), off)})
    IN  [completed |-> completed, total |-> daysToCount,
         percentage |-> MathRound(completed * 100, daysToCount)]

\* isFuture(date): date > today at local midnight
isFuture(date, clock, off) == date > SetHours0(clock, off)

\* Months between the displayed month and the month of the clock.
MonthsAway(month, clock, off) ==
    (GetFullYear(month, off) * 12 + GetMonth(month, off))
        - (GetFullYear(clock, off) * 12 + GetMonth(clock, off))

MaxMonthsAway == 1

\* setCurrentMonth(new Date(year, month - 1)); the calendar renders again.
GoToPrevMonth ==
    /\ MonthsAway(currentMonth, now, tz) > -MaxMonthsAway
    /\ currentMonth' = NewDateYMD(GetFullYear(currentMonth, tz),
                                  GetMonth(currentMonth, tz) - 1, 1, tz)
    /\ monthStats' = MonthStats(habits, currentMonth', now, tz)
    /\ UNCHANGED <<center, pageView, habitTable, timer, now, tz, logs, nextId, result, req, habits>>

\* setCurrentMonth(new Date(year, month + 1))
GoToNextMonth ==
    /\ MonthsAway(currentMonth, now, tz) < MaxMonthsAway
    /\ currentMonth' = NewDateYMD(GetFullYear(currentMonth, tz),
                                  GetMonth(currentMonth, tz) + 1, 1, tz)
    /\ monthStats' = MonthStats(habits, currentMonth', now, tz)
    /\ UNCHANGED <<center, pageView, habitTable, timer, now, tz, logs, nextId, result, req, habits>>

\* The days of the grid the model clicks: the first two and the last of the
\* displayed month.
DayChoices(month, off) == {1, 2, DaysInMonth(month, off)}

\* onClick of an enabled day button: handleToggleDay(habit.id, date) posts
\* { date: date.toISOString() }; the route takes it up to its findUnique.
\* The user clicks once the page has settled from the click before
\* (overlapping requests are the subject of SpecLog).
HandleToggleDay(r, d) ==
    LET date == NewDateYMD(GetFullYear(currentMonth, tz),
                           GetMonth(currentMonth, tz), d, tz)
    IN  /\ \A q \in Requests : req[q].pc \in {"idle", "shown"}
        /\ ~isFuture(date, now, tz)
        /\ Accept(r, "u1", "h1",
                  [date |-> ToISOString(date), completed |-> Undefined,
                   note |-> Undefined],
                  date)

\* if (res.ok) fetchHabits(): the page takes the logs GET /api/habits
\* returns and the calendar renders again.
FetchHabits(r) ==
    /\ req[r].pc = "done"
    /\ req[r].status = 200
    /\ req' = [req EXCEPT ![r].pc = "shown"]
    /\ habits' = HabitsLogs(logs, now, tz)
    /\ monthStats' = MonthStats(habits', currentMonth, now, tz)
    /\ UNCHANGED <<center, pageView, habitTable, timer, now, tz, logs, nextId, result, currentMonth>>

\* The page is opened (useState(new Date()), first fetchHabits) on a habit
\* with no log yet.
InitCalendar ==
    /\ now = MakeDay(2024, 2, 1) * HoursPerDay + 1
    /\ tz \in Offsets
    /\ logs = {}
    /\ nextId = 0
    /\ result = [s \in Sites |-> NotRun]
    /\ req = [r \in Requests |-> Idle]
    /\ habits = HabitsLogs(logs, now, tz)
    /\ currentMonth = now
    /\ monthStats = MonthStats(habits, currentMonth, now, tz)
    /\ habitTable = <<>>
    /\ timer = NoTimer
    /\ center = NoCenter
    /\ pageView = NoPageView

NextCalendar ==
    \/ GoToPrevMonth
    \/ GoToNextMonth
    \/ \E r \in Requests :
          \/ \E d \in DayChoices(currentMonth, tz) : HandleToggleDay(r, d)
          \/ FindUnique(r)
          \/ UpdateLog(r)
          \/ CreateLog(r)
          \/ FetchHabits(r)

SpecCalendar == InitCalendar /\ [][NextCalendar]_vars

\* C9: the entry a click on calendar day D wrote is shown, once the page has
\* fetched the logs again, under that same day D.
C9_DayConvention ==
    \A r \in Requests :
        req[r].pc = "shown" =>
            \A l \in habits :
                l.id = req[r].log.id
                    => DateKey(l.date, tz) = DateKey(req[r].clicked, tz)

\* Local days with a completed entry among the logs the page holds.
ShownDoneDays == {LocalDay(l.date, tz) : l \in {x \in habits : x.completed}}

\* First and last day number of the window the month view counts: from the
\* 1st of the displayed month through today (displayed month = this month) or
\* through the last day of the displayed month.
WindowStart ==
    MakeDay(GetFullYear(currentMonth, tz), GetMonth(currentMonth, tz), 1)
WindowEnd ==
    IF MonthsAway(currentMonth, now, tz) = 0
    THEN LocalDay(now, tz)
    ELSE MakeDay(GetFullYear(currentMonth, tz), GetMonth(currentMonth, tz) + 1, 1) - 1

\* C10: total is the inclusive number of days of the window, completed the
\* number of those days with a completed entry, percentage 100 * completed /
\* total rounded to the nearest integer, halves up; one completed day,
\* 2024-02-01, over the 29 days of February 2024 gives 1, 29, 3.
C10_MonthStats ==
    /\ monthStats.total = WindowEnd - WindowStart + 1
    /\ monthStats.total >= 1
    /\ monthStats.completed =
           Cardinality(ShownDoneDays \cap (WindowStart..WindowEnd))
    /\ 2 * monthStats.percentage * monthStats.total
           <= 200 * monthStats.completed + monthStats.total
    /\ 200 * monthStats.completed + monthStats.total
           < 2 * (monthStats.percentage + 1) * monthStats.total
    /\ (/\ WindowStart = DaysFromCivil(2024, 2, 1)
        /\ WindowEnd = DaysFromCivil(2024, 2, 29)
        /\ ShownDoneDays \cap (WindowStart..WindowEnd) = {DaysFromCivil(2024, 2, 1)})
           => monthStats = [completed |-> 1, total |-> 29, percentage |-> 3]

\* February 2024 is displayed with 2024-02-01 its one completed day.
C10_Witness ==
    /\ GetFullYear(currentMonth, tz) = 2024
    /\ GetMonth(currentMonth, tz) = 1
    /\ ShownDoneDays = {DaysFromCivil(2024, 2, 1)}
    /\ monthStats = [completed |-> 1, total |-> 29, percentage |-> 3]


\* C18: the month view counts the days from the 1st of the displayed month
\* through min(today, last day of that month): no day after today is counted,
\* whichever month is displayed.
C18_WindowEndsToday ==
    LET lastDay == MakeDay(GetFullYear(currentMonth, tz),
                           GetMonth(currentMonth, tz) + 1, 1) - 1
        windowEnd == Min(LocalDay(now, tz), lastDay)
    IN  monthStats.total = Max(0, windowEnd - WindowStart + 1)

----------------------------------------------------------------------------
(* The three GET routes that read the habits of the session user:          *)
(* /api/dashboard/stats, /api/export and /api/habits.  A query result is   *)
(* a sequence of [id, logs], one element per habit the query returns.      *)

NoResponse   == [status |-> 0]
Unauthorized == [status |-> 401]

\* habit.logs of the include: the rows of the HabitLog table of one habit.
LogsOf(table, habitId) == {l \in table : l.habitId = habitId}

\* db.habit.findMany({ where: { userId, isArchived: false },
\*                     include: { logs: { where: { date: { gte: weekAgo } } } } })
DashboardHabits(hTable, lTable, today, off) ==
    LET active == SelectSeq(hTable, LAMBDA h : ~h.isArchived)
    IN  [k \in 1..Len(active) |->
            [id |-> active[k].id,
             logs |-> DashboardLogs(LogsOf(lTable, active[k].id), today, off)]]

\* log.completed && new Date(log.date).toDateString() === dateStr, for some log
\* Slip: any entry of the day counts, whatever it says.
DoneOnDateStrAnyEntry(habit, dateStr, off) ==
    \E log \in habit.logs : ToDateString(log.date, off) = dateStr

DoneOnDateStr(habit, dateStr, off) ==
    \E log \in habit.logs : log.completed /\ ToDateString(log.date, off) = dateStr

\* habits.filter((h) => h.logs.some(...)).length
CompletedCount(queried, dateStr, off) ==
    Cardinality({k \in 1..Len(queried) : DoneOnDateStr(queried[k], dateStr, off)})

\* habits.length > 0 ? Math.round((completed / habits.length) * 100) : 0
\* Slip: the empty case reports a full bar.
PercentageFullWhenEmpty(completed, total) ==
    IF total > 0 THEN MathRound(completed * 100, total) ELSE 100

Percentage(completed, total) ==
    IF total > 0 THEN MathRound(completed * 100, total) ELSE 0

\* const checkDate = new Date(today): the loop of a habit moves a copy of
\* the Date the handler holds in `today`, and `today` is after the loop what
\* it was before.
\* Slip: const checkDate = today, the loop moves the handler's Date itself.
todayAfterLoopOnTodayItself(today, loop) == loop.checkDate

todayAfterLoop(today, loop) == today

\* habits.map((habit) => { ... return { id, streak, completedToday } }): the
\* habits are taken in order, every loop reading the one Date `today`;
\* todayStr was computed before the map.  The result is the array and the
\* value `today` holds afterwards.
RECURSIVE habitStreaksMap(_, _, _, _)
habitStreaksMap(queried, today, todayStr, off) ==
    IF queried = <<>> THEN [streaks |-> <<>>, today |-> today]
    ELSE LET before == habitStreaksMap(SubSeq(queried, 1, Len(queried) - 1),
                                       today, todayStr, off)
             habit  == queried[Len(queried)]
             loop   == habitStreakLoop(habit.logs, before.today, off)
         IN  [streaks |->
                  Append(before.streaks,
                         [id |-> habit.id,
                          streak |-> loop.streak,
                          completedToday |-> DoneOnDateStr(habit, todayStr, off)]),
              today |-> todayAfterLoop(before.today, loop)]

habitStreaks(queried, today, off) ==
    habitStreaksMap(queried, today, ToDateString(today, off), off).streaks

\* for (let i = 6; i >= 0; i--) { ... weekDays.push({ date, completed, total, percentage }) }
weekDays(queried, today, off) ==
    [k \in 1..7 |->
        LET i == 7 - k
            date == SetDate(today, GetDate(today, off) - i, off)
            completed == CompletedCount(queried, ToDateString(date, off), off)
        IN  [date |-> ToISOString(date),
             completed |-> completed,
             total |-> Len(queried),
             percentage |-> Percentage(completed, Len(queried))]]

\* Math.max(...habitStreaks.map((h) => h.streak), 0)
\* Slip: the floor of the maximum is 1.
bestStreakAtLeastOne(streaks) ==
    LET values == {streaks[k].streak : k \in 1..Len(streaks)} \cup {1}
    IN  CHOOSE m \in values : \A v \in values : v <= m

bestStreak(streaks) ==
    LET values == {streaks[k].streak : k \in 1..Len(streaks)} \cup {0}
    IN  CHOOSE m \in values : \A v \in values : v <= m

\* habitStreaks.find((h) => h.streak === bestStreak); undefined when none
\* is found, and JSON.stringify then leaves the key out.
NoHabit == [id |-> Undefined]

bestStreakHabit(streaks) ==
    LET hits == {k \in 1..Len(streaks) : streaks[k].streak = bestStreak(streaks)}
    IN  IF hits = {} THEN NoHabit
        ELSE streaks[CHOOSE k \in hits : \A j \in hits : k <= j]

\* Array.prototype.sort((a, b) => b.streak - a.streak) is stable: the
\* elements are placed one by one, each behind those that do not sort
\* after it.
\* Slip: an element is placed ahead of its equals.
InsertAheadOfEquals(sorted, h) ==
    LET ahead == Cardinality({k \in 1..Len(sorted) : sorted[k].streak > h.streak})
    IN  SubSeq(sorted, 1, ahead) \o <<h>> \o SubSeq(sorted, ahead + 1, Len(sorted))

Insert(sorted, h) ==
    LET ahead == Cardinality({k \in 1..Len(sorted) : sorted[k].streak >= h.streak})
    IN  SubSeq(sorted, 1, ahead) \o <<h>> \o SubSeq(sorted, ahead + 1, Len(sorted))

RECURSIVE SortByStreak(_)
SortByStreak(streaks) ==
    IF streaks = <<>> THEN <<>>
    ELSE Insert(SortByStreak(SubSeq(streaks, 1, Len(streaks) - 1)),
                streaks[Len(streaks)])

\* habits.reduce((sum, habit) => sum + habit.logs.filter((l) => l.completed).length, 0)
RECURSIVE totalCompletionsThisWeek(_)
totalCompletionsThisWeek(queried) ==
    IF queried = <<>> THEN 0
    ELSE totalCompletionsThisWeek(SubSeq(queried, 1, Len(queried) - 1))
         + Cardinality({l \in queried[Len(queried)].logs : l.completed})

\* GET /api/dashboard/stats: the habit part of the response.
DashboardResponse(hTable, lTable, clock, off) ==
    LET today == SetHours0(clock, off)
        queried == DashboardHabits(hTable, lTable, today, off)
        habitsCompletedToday ==
            CompletedCount(queried, ToDateString(today, off), off)
        mapped == habitStreaksMap(queried, today, ToDateString(today, off), off)
        streaks == mapped.streaks
    IN  [status |-> 200,
         route |-> "dashboard",
         today |-> [habitsCompleted |-> habitsCompletedToday,
                    habitsTotal |-> Len(queried),
                    percentage |-> Percentage(habitsCompletedToday, Len(queried))],
         streaks |-> [habits |-> SortByStreak(streaks),
                      best |-> bestStreakHabit(streaks),
                      totalCompletionsThisWeek |-> totalCompletionsThisWeek(queried)],
         weeklyProgress |-> weekDays(queried, mapped.today, off)]

\* GET /api/export: db.habit.findMany({ where: { userId },
\*     include: { logs: ... }, orderBy: { createdAt: "asc" } })
ExportHabits(hTable, lTable) ==
    [k \in 1..Len(hTable) |->
        [id |-> hTable[k].id, logs |-> ExportLogs(LogsOf(lTable, hTable[k].id))]]

\* convertToCSV / convertToMarkdown: one line per habit of data.habits with
\* its completions and its calculateStreak(habit.logs).
ExportResponse(hTable, lTable, clock, off) ==
    LET queried == ExportHabits(hTable, lTable)
    IN  [status |-> 200,
         route |-> "export",
         habits |-> [k \in 1..Len(queried) |->
                        [id |-> queried[k].id,
                         completions |->
                             Cardinality({l \in queried[k].logs : l.completed}),
                         streak |-> calculateStreak(queried[k].logs, clock, off)]]]

\* GET /api/habits: the habits that are not archived, each with its logs of
\* the last 60 days.
HabitsResponse(hTable, lTable, clock, off) ==
    LET active == SelectSeq(hTable, LAMBDA h : ~h.isArchived)
    IN  [status |-> 200,
         route |-> "habits",
         habits |-> [k \in 1..Len(active) |->
                        [id |-> active[k].id,
                         logs |-> HabitsLogs(LogsOf(lTable, active[k].id),
                                             clock, off)]]]

----------------------------------------------------------------------------
(* Specification SpecDashboard: the session user owns up to MaxHabits      *)
(* habits, each with one of a few log histories (an archived habit with    *)
(* the history of a habit ticked until today); the dashboard, the export   *)
(* and the habits page are then requested in any order.  `result` is the   *)
(* response served last.                                                   *)

MaxHabits == 3

HabitId(k) == "h" \o ToString(k)

\* Log histories, as <<day relative to today, completed>>: no log; the last
\* three days; the last five days; tomorrow ticked, today unticked and the
\* day a week ago, at the edge of the dashboard query, ticked.
LogPatterns == {"none", "run3", "run5", "edge"}
PatternEntries(p) ==
    CASE p = "none"  -> {}
      [] p = "run3"  -> {<<0, TRUE>>, <<-1, TRUE>>, <<-2, TRUE>>}
      [] p = "run5"  -> {<<0, TRUE>>, <<-1, TRUE>>, <<-2, TRUE>>, <<-3, TRUE>>,
                         <<-4, TRUE>>}
      [] p = "edge"  -> {<<1, TRUE>>, <<0, FALSE>>, <<-7, TRUE>>}

InitDashboard ==
    /\ now = MakeDay(2024, 2, 1) * HoursPerDay + 1
    /\ tz \in Offsets
    /\ \E n \in 0..MaxHabits :
          \E archived \in [1..n -> BOOLEAN], pattern \in [1..n -> LogPatterns] :
              /\ \A k \in 1..n : archived[k] => pattern[k] = "run3"
              /\ habitTable = [k \in 1..n |->
                                  [id |-> HabitId(k), isArchived |-> archived[k]]]
              /\ logs = UNION {{Row(10 * k + e[1] + 8, HabitId(k),
                                    StoredDateReadAs(LocalDay(now, tz) + e[1], tz),
                                    e[2], NoNote) :
                                   e \in PatternEntries(pattern[k])} : k \in 1..n}
    /\ nextId = 0
    /\ result = NoResponse
    /\ req = <<>>
    /\ habits = <<>>
    /\ currentMonth = NoDay
    /\ monthStats = <<>>
    /\ timer = NoTimer
    /\ center = NoCenter
    /\ pageView = NoPageView

\* if (!session?.user?.id) return 401: the first lines of each of the three
\* GET handlers, called without a session.
UnauthorizedGET ==
    /\ result' = Unauthorized
    /\ UNCHANGED <<center, pageView, now, tz, logs, nextId, req, habits, currentMonth, monthStats,
                   habitTable, timer>>

\* GET /api/dashboard/stats, called with the session of the user
DashboardStatsGET ==
    /\ result' = DashboardResponse(habitTable, logs, now, tz)
    /\ UNCHANGED <<center, pageView, now, tz, logs, nextId, req, habits, currentMonth, monthStats,
                   habitTable, timer>>

\* GET /api/export?type=habits, called with the session of the user
ExportGET ==
    /\ result' = ExportResponse(habitTable, logs, now, tz)
    /\ UNCHANGED <<center, pageView, now, tz, logs, nextId, req, habits, currentMonth, monthStats,
                   habitTable, timer>>

\* The habits page mounts: useState(new Date()), fetchHabits() calls
\* GET /api/habits and, if (res.ok), setHabits(data); one HabitCalendar per
\* habit then renders its monthStats.
MountHabitsPage ==
    /\ result' = HabitsResponse(habitTable, logs, now, tz)
    /\ currentMonth' = now
    /\ habits' = result'.habits
    /\ monthStats' = [k \in 1..Len(habits') |->
                         MonthStats(habits'[k].logs, currentMonth', now, tz)]
    /\ UNCHANGED <<center, pageView, now, tz, logs, nextId, req, habitTable, timer>>

NextDashboard ==
    \/ UnauthorizedGET
    \/ DashboardStatsGET
    \/ ExportGET
    \/ MountHabitsPage

SpecDashboard == InitDashboard /\ [][NextDashboard]_vars

Served(route) == result.status = 200 /\ result.route = route

\* C11: every percentage of the dashboard response and of the calendars is
\* an integer of 0..100, is 0 when its denominator is 0, and no calendar
\* divides by zero.
C11_Percentages ==
    /\ Served("dashboard") =>
          /\ result.today.percentage \in 0..100
          /\ result.today.habitsTotal = 0 => result.today.percentage = 0
          /\ \A k \in 1..7 :
                /\ result.weeklyProgress[k].percentage \in 0..100
                /\ result.weeklyProgress[k].total = 0
                       => result.weeklyProgress[k].percentage = 0
    /\ \A k \in 1..Len(monthStats) :
          /\ monthStats[k].total > 0
          /\ monthStats[k].percentage \in 0..100

\* The user has habits, every one of them archived: the dashboard divides
\* by no habit at all.
C11_Witness ==
    /\ Served("dashboard")
    /\ Len(habitTable) > 0
    /\ result.today.habitsTotal = 0
    /\ result.today.percentage = 0
    /\ \A k \in 1..7 : result.weeklyProgress[k].percentage = 0

\* Place of a habit in the order the queries return the habits in.
InputPlace(id) == CHOOSE k \in 1..Len(habitTable) : habitTable[k].id = id

ActiveIds == {habitTable[k].id : k \in {j \in 1..Len(habitTable) :
                                           ~habitTable[j].isArchived}}

\* C12: streaks.habits lists every queried habit once, by streak in
\* descending order, with equal streaks in input order; streaks.best, when
\* present, is the first element of the list, the earliest habit in input
\* order among those of the maximum streak.
C12_Ranking ==
    Served("dashboard") =>
        LET ranked == result.streaks.habits
            best   == result.streaks.best
        IN  /\ Len(ranked) = Cardinality(ActiveIds)
            /\ {ranked[k].id : k \in 1..Len(ranked)} = ActiveIds
            /\ \A i, j \in 1..Len(ranked) :
                  i < j =>
                      /\ ranked[i].streak >= ranked[j].streak
                      /\ ranked[i].streak = ranked[j].streak
                             => InputPlace(ranked[i].id) < InputPlace(ranked[j].id)
            /\ best # NoHabit =>
                  /\ best = ranked[1]
                  /\ \A k \in 1..Len(ranked) :
                        /\ ranked[k].streak <= best.streak
                        /\ ranked[k].streak = best.streak
                               => InputPlace(best.id) <= InputPlace(ranked[k].id)

\* Habits with streaks 3, 5, 5 in input order are listed 5, 5, 3, the two
\* 5-streak habits in their input order and the first of them as best.
C12_Witness ==
    /\ Served("dashboard")
    /\ Len(result.streaks.habits) = 3
    /\ [k \in 1..3 |-> result.streaks.habits[k].streak] = <<5, 5, 3>>
    /\ [k \in 1..3 |-> result.streaks.habits[k].id] = <<"h2", "h3", "h1">>
    /\ result.streaks.best.id = "h2"

\* C14: no output of the dashboard, of GET /api/habits or of the export is
\* derived from an archived habit: every habit a response lists is active,
\* and the dashboard's totals count the active habits only.
C14_ArchivedExcluded ==
    /\ Served("dashboard") =>
          /\ \A k \in 1..Len(result.streaks.habits) :
                result.streaks.habits[k].id \in ActiveIds
          /\ result.streaks.best # NoHabit => result.streaks.best.id \in ActiveIds
          /\ result.today.habitsTotal = Cardinality(ActiveIds)
          /\ \A k \in 1..7 : result.weeklyProgress[k].total = Cardinality(ActiveIds)
    /\ Served("habits") =>
          \A k \in 1..Len(result.habits) : result.habits[k].id \in ActiveIds
    /\ Served("export") =>
          \A k \in 1..Len(result.habits) : result.habits[k].id \in ActiveIds


\* weeklyProgress[1].completed + ... + weeklyProgress[k].completed
RECURSIVE SumCompleted(_, _)
SumCompleted(progress, k) ==
    IF k = 0 THEN 0 ELSE SumCompleted(progress, k - 1) + progress[k].completed

\* C19: totalCompletionsThisWeek is the sum of the completed counts of the
\* seven days of weeklyProgress, today-6 .. today.
C19_OneWeekWindow ==
    Served("dashboard") =>
        result.streaks.totalCompletionsThisWeek
            = SumCompleted(result.weeklyProgress, 7)

\* C20: the dashboard names a best habit whenever an active habit exists,
\* the first in input order when every streak is 0, and none only when no
\* habit is active.
C20_BestAtZero ==
    Served("dashboard") =>
        LET ranked == result.streaks.habits
            best   == result.streaks.best
        IN  /\ best = NoHabit <=> ActiveIds = {}
            /\ (ActiveIds # {} /\ \A k \in 1..Len(ranked) : ranked[k].streak = 0)
                  => /\ best.streak = 0
                     /\ \A id \in ActiveIds : InputPlace(best.id) <= InputPlace(id)

\* Two active habits, neither with a streak: the first is named best with 0.
C20_Witness ==
    /\ Served("dashboard")
    /\ Len(result.streaks.habits) = 2
    /\ \A k \in 1..2 : result.streaks.habits[k].streak = 0
    /\ result.streaks.best.streak = 0
    /\ result.streaks.best.id = result.streaks.habits[1].id
    /\ InputPlace(result.streaks.habits[1].id) < InputPlace(result.streaks.habits[2].id)

\* The response the dashboard gives a user who owns the one habit alone.
DashboardAlone(habitId) ==
    DashboardResponse(<<[id |-> habitId, isArchived |-> FALSE]>>,
                      LogsOf(logs, habitId), now, tz)

\* C24: the streak loops leave the handler's `today` as it was: the streak
\* the dashboard reports for a habit is the one it reports when the habit
\* is the only one, whatever habits were processed before it, the seven
\* days of weeklyProgress are today-6 .. today, and a habit's streak in the
\* export is the streak of its own entries.
C24_ReadOnly ==
    /\ Served("dashboard") =>
          LET today == SetHours0(now, tz)
          IN  /\ \A k \in 1..Len(result.streaks.habits) :
                    result.streaks.habits[k]
                        = DashboardAlone(result.streaks.habits[k].id).streaks.habits[1]
              /\ \A k \in 1..7 :
                    result.weeklyProgress[k].date
                        = ToISOString(SetDate(today, GetDate(today, tz) - (7 - k), tz))
              /\ result.weeklyProgress
                     = weekDays(DashboardHabits(habitTable, logs, today, tz),
                                today, tz)
    /\ Served("export") =>
          \A k \in 1..Len(result.habits) :
              result.habits[k].streak
                  = calculateStreak(LogsOf(logs, result.habits[k].id), now, tz)

\* Three active habits are served, the first two with streaks: the third,
\* ticked for the last five days, is reported with 5 and the chart ends on
\* today.
C24_Witness ==
    /\ Served("dashboard")
    /\ Len(habitTable) = 3
    /\ \A k \in 1..3 : ~habitTable[k].isArchived
    /\ habitStreak(DashboardLogs(LogsOf(logs, "h1"), SetHours0(now, tz), tz),
                   SetHours0(now, tz), tz) = 3
    /\ \E k \in 1..3 :
          result.streaks.habits[k] = [id |-> "h3", streak |-> 5, completedToday |-> TRUE]
    /\ result.weeklyProgress[7].date = ToISOString(SetHours0(now, tz))
    /\ result.weeklyProgress[7].completed = 3

\* The entries that say "completed".
Done(table) == {l \in table : l.completed}

\* C21: an entry with completed = false counts as no entry: the dashboard
\* response, the export's completions and streaks and the month statistics
\* of the calendars are what they would be had every such entry been removed
\* from the log, and a habit is completed today iff it has an entry for
\* today that says completed.
C21_FalseIsAbsent ==
    /\ Served("dashboard") =>
          /\ result = DashboardResponse(habitTable, Done(logs), now, tz)
          /\ \A k \in 1..Len(result.streaks.habits) :
                result.streaks.habits[k].completedToday
                    <=> \E l \in Done(logs) :
                            /\ l.habitId = result.streaks.habits[k].id
                            /\ LocalDay(l.date, tz) = LocalDay(now, tz)
    /\ Served("export") =>
          result = ExportResponse(habitTable, Done(logs), now, tz)
    /\ \A k \in 1..Len(monthStats) :
          monthStats[k] = MonthStats(Done(habits[k].logs), currentMonth, now, tz)

\* The habit has an entry for today that does not say completed.
UntickedToday(habitId) ==
    \E l \in logs :
        /\ l.habitId = habitId
        /\ ~l.completed
        /\ LocalDay(l.date, tz) = LocalDay(now, tz)

\* The dashboard is served while an active habit holds an unticked entry
\* for today: the habit is not completed today and today's bar leaves it out.
C21_Witness ==
    /\ Served("dashboard")
    /\ result.today.habitsCompleted < result.today.habitsTotal
    /\ \E h \in ActiveIds :
          /\ UntickedToday(h)
          /\ \E k \in 1..Len(result.streaks.habits) :
                /\ result.streaks.habits[k].id = h
                /\ ~result.streaks.habits[k].completedToday
    /\ result.weeklyProgress[7].completed = result.today.habitsCompleted

----------------------------------------------------------------------------
(* Specification SpecLoops: the three streak loops are called, again and   *)
(* again, on one table of logs that does not change while the clock moves  *)
(* on.  `result` is the set of the calls made: what each was handed, when  *)
(* it ran and the loop state it ended in.                                  *)

MaxTicks == 1

LoopsStart == MakeDay(2024, 2, 1) * HoursPerDay + 1

\* Histories, as <<day relative to the first today, completed>>: none;
\* today ticked; today and yesterday unticked; entries more than a year and
\* decades back; entries more than a year and decades ahead; every day of
\* the last 366 ticked.
HistoryNames == {"empty", "today", "unticked", "farPast", "farFuture", "year"}
History(name) ==
    CASE name = "empty"     -> {}
      [] name = "today"     -> {<<0, TRUE>>}
      [] name = "unticked"  -> {<<0, FALSE>>, <<-1, FALSE>>}
      [] name = "farPast"   -> {<<-400, TRUE>>, <<-10000, TRUE>>}
      [] name = "farFuture" -> {<<400, TRUE>>, <<10000, TRUE>>}
      [] name = "year"      -> {<<-j, TRUE>> : j \in 0..StreakCap}

InitLoops ==
    /\ now = LoopsStart
    /\ tz \in Offsets
    /\ \E name \in HistoryNames :
          logs = {Row(e[1] + 10001, "h1",
                      StoredDateReadAs(LocalDay(now, tz) + e[1], tz),
                      e[2], NoNote) : e \in History(name)}
    /\ nextId = 0
    /\ result = {}
    /\ req = <<>>
    /\ habits = {}
    /\ currentMonth = NoDay
    /\ monthStats = NoStats
    /\ habitTable = <<>>
    /\ timer = NoTimer
    /\ center = NoCenter
    /\ pageView = NoPageView

\* Two days go by.
DaysPass ==
    /\ now < LoopsStart + MaxTicks * 2 * HoursPerDay
    /\ now' = now + 2 * HoursPerDay
    /\ UNCHANGED <<center, pageView, tz, logs, nextId, result, req, habits, currentMonth,
                   monthStats, habitTable, timer>>

\* One call: the logs the loop was handed (its argument), the clock reading
\* and zone it ran under, and the loop state at its exit.
Call(site, handed, loop) ==
    [site |-> site, logs |-> handed, clock |-> now, streak |-> loop.streak,
     iterations |-> IF loop.broke THEN loop.i + 1 ELSE loop.i,
     exited |-> loop.broke \/ ~(loop.i < StreakCap)]

\* GET /api/dashboard/stats: the habitStreaks loop of the habit.
DashboardCall ==
    /\ LET today == SetHours0(now, tz)
           handed == DashboardLogs(logs, today, tz)
       IN  result' = result \cup
               {Call("dashboard", handed, habitStreakLoop(handed, today, tz))}
    /\ UNCHANGED <<center, pageView, now, tz, logs, nextId, req, habits, currentMonth,
                   monthStats, habitTable, timer>>

\* GET /api/export: calculateStreak(habit.logs).
ExportCall ==
    /\ LET handed == ExportLogs(logs)
       IN  result' = result \cup
               {Call("export", handed, calculateStreakLoop(handed, now, tz))}
    /\ UNCHANGED <<center, pageView, now, tz, logs, nextId, req, habits, currentMonth,
                   monthStats, habitTable, timer>>

\* HabitCalendar renders currentStreak over the logs GET /api/habits sent.
CalendarCall ==
    /\ LET handed == HabitsLogs(logs, now, tz)
       IN  result' = result \cup
               {Call("calendar", handed,
                     currentStreakLoop(CalendarCompletedDates(handed, tz),
                                       now, tz))}
    /\ UNCHANGED <<center, pageView, now, tz, logs, nextId, req, habits, currentMonth,
                   monthStats, habitTable, timer>>

NextLoops == DaysPass \/ DashboardCall \/ ExportCall \/ CalendarCall

SpecLoops == InitLoops /\ [][NextLoops]_vars

\* C15: every call of a streak loop has left its loop within 365 iterations,
\* with a streak of 0..365, and with 0 when no log it was handed is
\* completed.
C15_Terminates ==
    \A c \in result :
        /\ c.exited
        /\ c.iterations <= StreakCap
        /\ c.streak \in 0..StreakCap
        /\ (\A l \in c.logs : ~l.completed) => c.streak = 0

\* The export's loop has run over 366 ticked days to its last iteration and
\* returned 365; two days later every loop has left at once with 0.
C15_Witness ==
    /\ \E c \in result :
          /\ c.site = "export"
          /\ Cardinality(c.logs) = StreakCap + 1
          /\ c.iterations = StreakCap
          /\ c.streak = StreakCap
    /\ now > LoopsStart
    /\ \A s \in Sites :
          \E c \in result :
              c.site = s /\ c.clock = now /\ c.streak = 0 /\ c.exited

\* C16: a streak loop called twice with the same logs returns the same
\* streak.
C16_Deterministic ==
    \A c1, c2 \in result :
        (c1.site = c2.site /\ c1.logs = c2.logs) => c1.streak = c2.streak

----------------------------------------------------------------------------
(* The PomodoroTimer widget of the timer page.  `timer` is the state of    *)
(* the component: settings, mode, timeLeft (seconds), isRunning and        *)
(* sessionsCompleted.                                                      *)

DEFAULT_SETTINGS ==
    [workDuration |-> 25, shortBreakDuration |-> 5, longBreakDuration |-> 15,
     longBreakInterval |-> 4]

TimerModes == {"work", "shortBreak", "longBreak"}

getModeDuration(settings, m) ==
    CASE m = "work"       -> settings.workDuration * 60
      [] m = "shortBreak" -> settings.shortBreakDuration * 60
      [] m = "longBreak"  -> settings.longBreakDuration * 60

\* handleTimerComplete: setIsRunning(false), then the next mode and its time.
\* Slip: the long break is decided on the count before this session.
handleTimerCompleteStaleCount(t) ==
    IF t.mode = "work"
    THEN LET newSessions == t.sessionsCompleted + 1
         IN  IF t.sessionsCompleted % t.settings.longBreakInterval = 0
             THEN [t EXCEPT !.isRunning = FALSE,
                            !.sessionsCompleted = newSessions,
                            !.mode = "longBreak",
                            !.timeLeft = t.settings.longBreakDuration * 60]
             ELSE [t EXCEPT !.isRunning = FALSE,
                            !.sessionsCompleted = newSessions,
                            !.mode = "shortBreak",
                            !.timeLeft = t.settings.shortBreakDuration * 60]
    ELSE [t EXCEPT !.isRunning = FALSE,
                   !.mode = "work",
                   !.timeLeft = t.settings.workDuration * 60]

\* Slip: the end of a break counts as a session too.
handleTimerCompleteCountsBreaks(t) ==
    IF t.mode = "work"
    THEN LET newSessions == t.sessionsCompleted + 1
         IN  IF newSessions % t.settings.longBreakInterval = 0
             THEN [t EXCEPT !.isRunning = FALSE,
                            !.sessionsCompleted = newSessions,
                            !.mode = "longBreak",
                            !.timeLeft = t.settings.longBreakDuration * 60]
             ELSE [t EXCEPT !.isRunning = FALSE,
                            !.sessionsCompleted = newSessions,
                            !.mode = "shortBreak",
                            !.timeLeft = t.settings.shortBreakDuration * 60]
    ELSE [t EXCEPT !.isRunning = FALSE,
                   !.sessionsCompleted = @ + 1,
                   !.mode = "work",
                   !.timeLeft = t.settings.workDuration * 60]

handleTimerComplete(t) ==
    IF t.mode = "work"
    THEN LET newSessions == t.sessionsCompleted + 1
         IN  IF newSessions % t.settings.longBreakInterval = 0
             THEN [t EXCEPT !.isRunning = FALSE,
                            !.sessionsCompleted = newSessions,
                            !.mode = "longBreak",
                            !.timeLeft = t.settings.longBreakDuration * 60]
             ELSE [t EXCEPT !.isRunning = FALSE,
                            !.sessionsCompleted = newSessions,
                            !.mode = "shortBreak",
                            !.timeLeft = t.settings.shortBreakDuration * 60]
    ELSE [t EXCEPT !.isRunning = FALSE,
                   !.mode = "work",
                   !.timeLeft = t.settings.workDuration * 60]

MaxSessions == 5

\* The interval callback, alive while isRunning && timeLeft > 0:
\* setTimeLeft((prev) => prev <= 1 ? (handleTimerComplete(), 0) : prev - 1).
\* handleTimerComplete runs inside the updater, while the component renders
\* the tick; the states it sets are applied behind the updater's own 0, so
\* the render ends with the time of the next mode.
Tick ==
    /\ timer.isRunning
    /\ timer.timeLeft > 0
    /\ (timer.mode = "work" /\ timer.timeLeft <= 1)
           => timer.sessionsCompleted < MaxSessions
    /\ timer' = IF timer.timeLeft <= 1 THEN handleTimerComplete(timer)
                ELSE [timer EXCEPT !.timeLeft = @ - 1]
    /\ UNCHANGED <<center, pageView, now, tz, logs, nextId, result, req, habits, currentMonth,
                   monthStats, habitTable>>

\* toggleTimer: setIsRunning(!isRunning)
ToggleTimer ==
    /\ timer' = [timer EXCEPT !.isRunning = ~@]
    /\ UNCHANGED <<center, pageView, now, tz, logs, nextId, result, req, habits, currentMonth,
                   monthStats, habitTable>>

\* resetTimer
ResetTimer ==
    /\ timer' = [timer EXCEPT !.isRunning = FALSE,
                              !.timeLeft = getModeDuration(timer.settings, timer.mode)]
    /\ UNCHANGED <<center, pageView, now, tz, logs, nextId, result, req, habits, currentMonth,
                   monthStats, habitTable>>

\* switchMode(newMode)
SwitchMode(newMode) ==
    /\ timer' = [timer EXCEPT !.isRunning = FALSE,
                              !.mode = newMode,
                              !.timeLeft = getModeDuration(timer.settings, newMode)]
    /\ UNCHANGED <<center, pageView, now, tz, logs, nextId, result, req, habits, currentMonth,
                   monthStats, habitTable>>

\* The widget mounts with the default settings, which are left as they are.
InitPomodoro ==
    /\ timer = [settings |-> DEFAULT_SETTINGS,
                mode |-> "work",
                timeLeft |-> DEFAULT_SETTINGS.workDuration * 60,
                isRunning |-> FALSE,
                sessionsCompleted |-> 0]
    /\ now = LoopsStart
    /\ tz = 0
    /\ logs = {}
    /\ nextId = 0
    /\ result = NoResponse
    /\ req = <<>>
    /\ habits = {}
    /\ currentMonth = NoDay
    /\ monthStats = NoStats
    /\ habitTable = <<>>
    /\ center = NoCenter
    /\ pageView = NoPageView

NextPomodoro ==
    \/ Tick
    \/ ToggleTimer
    \/ ResetTimer
    \/ \E m \in TimerModes : SwitchMode(m)

SpecPomodoro == InitPomodoro /\ [][NextPomodoro]_vars

\* C17: the tick that ends a work countdown stops the timer and leaves a
\* long break with 15:00 on the clock exactly when the sessions completed,
\* this one included, are a multiple of 4, and a short break with 5:00
\* otherwise; the tick that ends a break stops the timer and leaves work
\* with 25:00.
C17_PomodoroCycle ==
    [][(Tick /\ timer.timeLeft <= 1) =>
          /\ ~timer'.isRunning
          /\ timer.mode = "work" =>
                /\ timer'.sessionsCompleted = timer.sessionsCompleted + 1
                /\ IF timer'.sessionsCompleted % 4 = 0
                   THEN timer'.mode = "longBreak" /\ timer'.timeLeft = 15 * 60
                   ELSE timer'.mode = "shortBreak" /\ timer'.timeLeft = 5 * 60
          /\ timer.mode # "work" =>
                /\ timer'.sessionsCompleted = timer.sessionsCompleted
                /\ timer'.mode = "work" /\ timer'.timeLeft = 25 * 60
      ]_vars

\* Four work sessions are completed and the long break stands ready.
C17_Witness ==
    /\ timer.sessionsCompleted = 4
    /\ timer.mode = "longBreak"
    /\ timer.timeLeft = 15 * 60
    /\ ~timer.isRunning

----------------------------------------------------------------------------
(* Specification SpecSettings: the widget with its settings panel open;    *)
(* the user also clicks the increase and decrease buttons of the four      *)
(* settings.                                                               *)

\* The buttons of the panel, as the arguments they pass to updateSetting.
SettingButtons ==
    {<<"workDuration", 5>>, <<"workDuration", -5>>,
     <<"shortBreakDuration", 1>>, <<"shortBreakDuration", -1>>,
     <<"longBreakDuration", 5>>, <<"longBreakDuration", -5>>,
     <<"longBreakInterval", 1>>, <<"longBreakInterval", -1>>}

\* The setting that holds the duration of a mode.
DurationKey(m) ==
    CASE m = "work"       -> "workDuration"
      [] m = "shortBreak" -> "shortBreakDuration"
      [] m = "longBreak"  -> "longBreakDuration"

\* updateSetting(key, delta): the value is kept within 1..60 and, when it is
\* the duration of the current mode, the clock is set to it.
\* Slip: the clock is left as it is.
updateSettingKeepsTimeLeft(t, key, delta) ==
    LET newValue == Max(1, Min(60, t.settings[key] + delta))
    IN  [t EXCEPT !.settings = [t.settings EXCEPT ![key] = newValue]]

updateSetting(t, key, delta) ==
    LET newValue == Max(1, Min(60, t.settings[key] + delta))
    IN  [t EXCEPT !.settings = [t.settings EXCEPT ![key] = newValue],
                  !.timeLeft = IF key = DurationKey(t.mode)
                               THEN newValue * 60 ELSE @]

MaxSettingSteps == 1

Abs(x) == IF x < 0 THEN -x ELSE x

\* Clicks it takes to bring the default settings to these.
StepsFromDefault(settings) ==
    (Abs(settings.workDuration - DEFAULT_SETTINGS.workDuration) + 4) \div 5
    + Abs(settings.shortBreakDuration - DEFAULT_SETTINGS.shortBreakDuration)
    + (Abs(settings.longBreakDuration - DEFAULT_SETTINGS.longBreakDuration) + 4) \div 5
    + Abs(settings.longBreakInterval - DEFAULT_SETTINGS.longBreakInterval)

\* A click on a button of the settings panel
UpdateSetting(key, delta) ==
    /\ StepsFromDefault(updateSetting(timer, key, delta).settings) <= MaxSettingSteps
    /\ timer' = updateSetting(timer, key, delta)
    /\ UNCHANGED <<center, pageView, now, tz, logs, nextId, result, req, habits, currentMonth,
                   monthStats, habitTable>>

NextSettings ==
    \/ Tick
    \/ ToggleTimer
    \/ ResetTimer
    \/ \E m \in TimerModes : SwitchMode(m)
    \/ \E b \in SettingButtons : UpdateSetting(b[1], b[2])

SpecSettings == InitPomodoro /\ [][NextSettings]_vars

\* C26: the clock stays within 0 and the duration the settings give the
\* current mode, every duration is at least a minute, and so the progress
\* shown is within 0 and 100 percent.
C26_ClockBound ==
    LET duration == getModeDuration(timer.settings, timer.mode)
    IN  /\ duration >= 60
        /\ timer.timeLeft >= 0
        /\ timer.timeLeft <= duration
        /\ (duration - timer.timeLeft) * 100 >= 0
        /\ (duration - timer.timeLeft) * 100 <= 100 * duration

\* The work duration was lowered to 20 minutes and the work countdown,
\* started from 20:00, has run its first second.
C26_Witness ==
    /\ timer.settings.workDuration = 20
    /\ timer.mode = "work"
    /\ timer.isRunning
    /\ timer.timeLeft = 20 * 60 - 1

\* C27: sessionsCompleted never decreases; the tick that ends a work
\* countdown adds exactly 1 to it, and every other step (the end of a
\* break, another tick, pause, reset, a mode switch, a setting change)
\* leaves it as it is.
C27_SessionCounter ==
    [][/\ timer'.sessionsCompleted >= timer.sessionsCompleted
       /\ IF timer.mode = "work" /\ timer.timeLeft <= 1 /\ Tick
          THEN timer'.sessionsCompleted = timer.sessionsCompleted + 1
          ELSE timer'.sessionsCompleted = timer.sessionsCompleted]_vars

\* With the long break set to every third session, three work countdowns
\* and the two breaks between them have run to their ends: the count is 3
\* and the long break is up.
C27_Witness ==
    /\ timer.settings.longBreakInterval = 3
    /\ timer.sessionsCompleted = 3
    /\ timer.mode = "longBreak"
    /\ timer.timeLeft = timer.settings.longBreakDuration * 60
    /\ ~timer.isRunning

----------------------------------------------------------------------------
(* The NotificationCenter.  `center` holds the state of the component      *)
(* (habits, shownReminders, notifications, permissionStatus), the reminder *)
(* effect that is active: the state its checkReminders closes over, when   *)
(* its interval was set and when it last fired, whether the effect is due  *)
(* to run again (a dependency changed in the last render), and `half`, the *)
(* half minutes the clock is past the hour `now`.  `added` keeps every     *)
(* reminder handed to setNotifications, in order.                          *)

HalvesPerHour == 120

\* The clock in half minutes.
HalfNow == now * HalvesPerHour + center.half

NoReminder == <<>>   \* reminderTime: null

\* `${hours padded to 2}:${minutes padded to 2}`, as <<hours, minutes>>; a
\* reminderTime is stored in the same HH:MM form.
currentTime(clock, half, off) == <<LocalHour(clock, off), half \div 2>>

\* fetchHabits: GET /api/habits, then
\* setHabits(data.filter((h) => h.reminderEnabled && h.reminderTime))
fetchHabits(hTable, lTable, clock, off) ==
    LET wanted == SelectSeq(hTable, LAMBDA h :
                      /\ ~h.isArchived
                      /\ h.reminderEnabled
                      /\ h.reminderTime # NoReminder)
    IN  [k \in 1..Len(wanted) |->
            [id |-> wanted[k].id,
             reminderTime |-> wanted[k].reminderTime,
             logs |-> HabitsLogs(LogsOf(lTable, wanted[k].id), clock, off)]]

\* `${habit.id}-${today}`
reminderId(habit, today) == <<habit.id, today>>

\* shownReminders.has(reminderId)
\* Slip: the reminders shown so far are not consulted.
shownBeforeNever(shown, id) == FALSE

shownBefore(shown, id) == id \in shown

\* The habits of the closure that pass the checks of checkReminders, in
\* the order of habits.forEach.
RemindersDue(e, clock, half, off) ==
    LET today == ToDateString(clock, off)
    IN  SelectSeq(e.habits, LAMBDA habit :
            /\ habit.reminderTime # NoReminder
            /\ habit.reminderTime = currentTime(clock, half, off)
            /\ ~shownBefore(e.shownReminders, reminderId(habit, today))
            /\ ~\E log \in habit.logs :
                    log.completed /\ ToDateString(log.date, off) = today)

\* checkReminders run from the effect closure e: for every habit that
\* passes, setShownReminders((prev) => new Set([...prev, reminderId])) and
\* setNotifications((prev) => [notification, ...prev]).
checkReminders(c, e, clock, half, off) ==
    LET today == ToDateString(clock, off)
        due   == RemindersDue(e, clock, half, off)
        ids   == [k \in 1..Len(due) |-> reminderId(due[k], today)]
    IN  [c EXCEPT !.shownReminders = @ \cup {ids[k] : k \in 1..Len(ids)},
                  !.notifications =
                      [k \in 1..Len(ids) |->
                          [id |-> ids[Len(ids) + 1 - k], read |-> FALSE]] \o @,
                  !.added = @ \o ids]

\* fetchHabits resolves: setHabits with a new array, a dependency of the
\* reminder effect.
FetchHabitsReturns ==
    /\ ~center.fetched
    /\ center' = [center EXCEPT
                     !.habits = fetchHabits(habitTable, logs, now, tz),
                     !.fetched = TRUE,
                     !.effectDue = TRUE]
    /\ UNCHANGED <<pageView, now, tz, logs, nextId, result, req, habits,
                   currentMonth, monthStats, habitTable, timer>>

\* The render after a change of habits, permissionStatus or shownReminders:
\* the old interval is cleared, checkReminders of the new closure runs at
\* once and its interval is set.  Every setShownReminders makes a new Set,
\* so the effect is due again whenever a reminder was added.
RunReminderEffect ==
    /\ center.effectDue
    /\ LET e == [habits |-> center.habits,
                 shownReminders |-> center.shownReminders,
                 permissionStatus |-> center.permissionStatus,
                 started |-> HalfNow, fired |-> HalfNow]
           checked == checkReminders(center, e, now, center.half, tz)
       IN  center' = [checked EXCEPT
                         !.effect = e,
                         !.effectDue = checked.added # center.added]
    /\ UNCHANGED <<pageView, now, tz, logs, nextId, result, req, habits,
                   currentMonth, monthStats, habitTable, timer>>

\* setInterval(checkReminders, 60000) is due: a whole number of minutes
\* after the effect ran, once per instant.
IntervalDue ==
    /\ HalfNow > center.effect.started
    /\ (HalfNow - center.effect.started) % 2 = 0
    /\ center.effect.fired # HalfNow

IntervalFires ==
    /\ IntervalDue
    /\ LET checked == checkReminders(center, center.effect, now, center.half, tz)
       IN  center' = [checked EXCEPT
                         !.effect.fired = HalfNow,
                         !.effectDue =
                             \/ center.effectDue
                             \/ checked.added # center.added]
    /\ UNCHANGED <<pageView, now, tz, logs, nextId, result, req, habits,
                   currentMonth, monthStats, habitTable, timer>>

\* handleRequestPermission: the user answers the browser's prompt.
HandleRequestPermission(permission) ==
    /\ center.permissionStatus = "default"
    /\ center' = [center EXCEPT !.permissionStatus = permission,
                                !.effectDue = TRUE]
    /\ UNCHANGED <<pageView, now, tz, logs, nextId, result, req, habits,
                   currentMonth, monthStats, habitTable, timer>>

\* dismissNotification(notificationId)
DismissNotification(k) ==
    /\ k \in 1..Len(center.notifications)
    /\ center' = [center EXCEPT
                     !.notifications =
                         SelectSeq(@, LAMBDA n : n.id # center.notifications[k].id)]
    /\ UNCHANGED <<pageView, now, tz, logs, nextId, result, req, habits,
                   currentMonth, monthStats, habitTable, timer>>

\* clearAll
ClearAll ==
    /\ center.notifications # <<>>
    /\ center' = [center EXCEPT !.notifications = <<>>]
    /\ UNCHANGED <<pageView, now, tz, logs, nextId, result, req, habits,
                   currentMonth, monthStats, habitTable, timer>>

\* The user ticks today for a habit on the habits page: the date-only POST
\* of the click creates the day's entry.
UserCompletes(habitId) ==
    LET logDate == LogDate(ToISOString(SetHours0(now, tz)))
    IN  /\ ~UniqueViolation(logs, habitId, logDate)
        /\ logs' = logs \cup {Row(nextId + 1, habitId, logDate,
                                  CreatedCompleted(Undefined),
                                  CreatedNote(Undefined))}
        /\ nextId' = nextId + 1
        /\ UNCHANGED <<center, pageView, now, tz, result, req, habits,
                       currentMonth, monthStats, habitTable, timer>>

----------------------------------------------------------------------------
(* Specification SpecReminders: a NotificationCenter stays mounted from    *)
(* 08:59 to 09:02 on up to MaxMornings mornings; two habits remind at      *)
(* 09:00, one of them possibly done before the mount and the other ticked  *)
(* by the user at any moment, a third has its reminder switched off.  A    *)
(* render and its effects follow a state change before the clock moves on. *)

MaxMornings == 2

FirstMorning == (MakeDay(2024, 2, 1) * HoursPerDay + 8) * HalvesPerHour + 118

\* Mornings begun, this one included, and half minutes into the morning.
Morning == (HalfNow - FirstMorning) \div (HoursPerDay * HalvesPerHour) + 1
IntoMorning == (HalfNow - FirstMorning) % (HoursPerDay * HalvesPerHour)

MorningHalves == 5

InitReminders ==
    /\ now = MakeDay(2024, 2, 1) * HoursPerDay + 8
    /\ tz = 0
    /\ habitTable =
           <<[id |-> "h1", isArchived |-> FALSE, reminderEnabled |-> TRUE,
              reminderTime |-> <<9, 0>>],
             [id |-> "h2", isArchived |-> FALSE, reminderEnabled |-> TRUE,
              reminderTime |-> <<9, 0>>],
             [id |-> "h3", isArchived |-> FALSE, reminderEnabled |-> FALSE,
              reminderTime |-> <<9, 0>>]>>
    /\ \E done \in BOOLEAN :
          logs = IF done
                 THEN {Row(1, "h2", MakeDay(2024, 2, 1) * HoursPerDay, TRUE, NoNote)}
                 ELSE {}
    /\ nextId = Cardinality(logs)
    /\ \E permission \in {"default", "granted"} :
          center = [mounted |-> TRUE, half |-> 118,
                    habits |-> <<>>, shownReminders |-> {},
                    notifications |-> <<>>, permissionStatus |-> permission,
                    added |-> <<>>, fetched |-> FALSE, effectDue |-> FALSE,
                    effect |-> [habits |-> <<>>, shownReminders |-> {},
                                permissionStatus |-> permission,
                                started |-> FirstMorning,
                                fired |-> FirstMorning]]
    /\ result = NoResponse
    /\ req = <<>>
    /\ habits = <<>>
    /\ currentMonth = NoDay
    /\ monthStats = NoStats
    /\ timer = NoTimer
    /\ pageView = NoPageView

\* Half a minute passes.
HalfMinutePasses ==
    /\ ~center.effectDue
    /\ ~IntervalDue
    /\ IntoMorning < MorningHalves
    /\ now' = IF center.half = HalvesPerHour - 1 THEN now + 1 ELSE now
    /\ center' = [center EXCEPT !.half = (@ + 1) % HalvesPerHour]
    /\ UNCHANGED <<pageView, tz, logs, nextId, result, req, habits,
                   currentMonth, monthStats, habitTable, timer>>

\* The day passes, the intervals fired until 08:59 of the next morning
\* finding no reminder due.
DayPasses ==
    /\ ~center.effectDue
    /\ ~IntervalDue
    /\ IntoMorning = MorningHalves
    /\ Morning < MaxMornings
    /\ now' = now + HoursPerDay - 1
    /\ center' = [center EXCEPT !.half = 118]
    /\ UNCHANGED <<pageView, tz, logs, nextId, result, req, habits,
                   currentMonth, monthStats, habitTable, timer>>

NextReminders ==
    \/ FetchHabitsReturns
    \/ RunReminderEffect
    \/ IntervalFires
    \/ \E permission \in {"granted", "denied"} : HandleRequestPermission(permission)
    \/ \E k \in 1..2 : DismissNotification(k)
    \/ ClearAll
    \/ UserCompletes("h1")
    \/ HalfMinutePasses
    \/ DayPasses

SpecReminders == InitReminders /\ [][NextReminders]_vars

\* C28: no reminder, that is no pair of habit and day, is handed to the
\* list twice, and the list never shows one twice.
C28_OncePerDay ==
    /\ \A i, j \in 1..Len(center.added) :
          center.added[i] = center.added[j] => i = j
    /\ \A i, j \in 1..Len(center.notifications) :
          center.notifications[i].id = center.notifications[j].id => i = j

\* The reminder of h1 for today was added at 09:00:00; at 09:00:30 the
\* user answered the permission prompt, the effect ran again and its
\* checkReminders found the reminder shown: one reminder was added.
C28_Witness ==
    /\ currentTime(now, center.half, tz) = <<9, 0>>
    /\ center.half = 1
    /\ \E k \in 1..Len(center.added) :
          center.added[k] = <<"h1", ToDateString(now, tz)>>
    /\ ~center.effectDue
    /\ center.effect.started = HalfNow
    /\ center.effect.permissionStatus # "default"
    /\ <<"h1", ToDateString(now, tz)>> \in center.effect.shownReminders
    /\ \E k \in 1..Len(center.effect.habits) : center.effect.habits[k].id = "h1"

\* The habit has a completed entry stored for the local day of the clock.
DoneInStore(habitId) ==
    \E l \in logs :
        /\ l.habitId = habitId
        /\ l.completed
        /\ ToDateString(l.date, tz) = ToDateString(now, tz)

\* C29: no step hands the list a reminder for a habit that has a completed
\* entry stored for today at that moment, whether the entry was stored
\* before or after the component fetched its habits.
C29_NoReminderWhenDone ==
    [][\A k \in 1..Len(center'.added) :
          k > Len(center.added) => ~DoneInStore(center'.added[k][1])]_vars

----------------------------------------------------------------------------
(* The PageView of one page.  `pageView` holds the state of the component  *)
(* (page, isLoading, saveStatus), the timeout of saveTimeoutRef with the   *)
(* content it will save, the PATCH requests under way, each with its       *)
(* updates, the setTimeout(..., 2000) callbacks not yet run, and the       *)
(* number of savePage calls made and of PATCHes the server has applied.    *)

NoPage    == [loaded |-> FALSE]   \* page: null
NoTimeout == "none"               \* saveTimeoutRef.current: no timeout pending

\* The fields a call of savePage may carry, absent ones undefined.
NoUpdates ==
    [title |-> Undefined, icon |-> Undefined, color |-> Undefined,
     isFavorite |-> Undefined, content |-> Undefined]

\* savePage, up to the fetch: nothing without a page, else "saving" and a
\* PATCH under way.
savePage(v, updates) ==
    IF ~v.page.loaded THEN v
    ELSE [v EXCEPT !.saveStatus = "saving",
                   !.requests = Append(@, updates),
                   !.calls = @ + 1]

\* setPage((prev) => ...) of the res.ok branch
pageAfterSave(prev, updates, updatedAt) ==
    IF ~prev.loaded THEN prev
    ELSE [prev EXCEPT
             !.title = IF updates.title = Undefined THEN @ ELSE updates.title,
             !.icon = IF updates.icon \in {Undefined, "null"}
                      THEN @ ELSE updates.icon,
             !.color = IF updates.color # Undefined THEN updates.color ELSE @,
             !.isFavorite = IF updates.isFavorite = Undefined
                            THEN @ ELSE updates.isFavorite = "true",
             !.updatedAt = updatedAt]

\* The requests under way without the k-th.
Without(requests, k) ==
    [i \in 1..Len(requests) - 1 |->
        IF i < k THEN requests[i] ELSE requests[i + 1]]

MaxSaves == 3

\* The user has calls of savePage left, the one of a timeout pending
\* counted as made.
SavesLeft ==
    pageView.calls + (IF pageView.saveTimeout = NoTimeout THEN 0 ELSE 1)
        < MaxSaves

Titles == {"Notes", "Plans"}
Icons  == {"page", "star"}
Colors == {"null", "red"}

\* fetchPage: GET /api/pages/:pageId answers; 2xx sets the page, otherwise
\* the page stays null; finally setIsLoading(false).
FetchPageReturns(ok) ==
    /\ pageView.mounted
    /\ pageView.isLoading
    /\ pageView' = [pageView EXCEPT
                       !.page = IF ok
                                THEN [loaded |-> TRUE, title |-> "Notes",
                                      icon |-> "page", color |-> "null",
                                      isFavorite |-> FALSE, updatedAt |-> 0]
                                ELSE NoPage,
                       !.isLoading = FALSE]
    /\ UNCHANGED <<center, now, tz, logs, nextId, result, req, habits,
                   currentMonth, monthStats, habitTable, timer>>

\* handleTitleChange, then handleTitleBlur
HandleTitleBlur(title) ==
    /\ pageView.mounted
    /\ pageView.page.loaded
    /\ SavesLeft
    /\ pageView' = savePage([pageView EXCEPT !.page.title = title],
                            [NoUpdates EXCEPT !.title = title])
    /\ UNCHANGED <<center, now, tz, logs, nextId, result, req, habits,
                   currentMonth, monthStats, habitTable, timer>>

\* toggleFavorite
ToggleFavorite ==
    /\ pageView.mounted
    /\ pageView.page.loaded
    /\ SavesLeft
    /\ LET newFavorite == ~pageView.page.isFavorite
       IN  pageView' = savePage([pageView EXCEPT !.page.isFavorite = newFavorite],
                                [NoUpdates EXCEPT !.isFavorite =
                                    IF newFavorite THEN "true" ELSE "false"])
    /\ UNCHANGED <<center, now, tz, logs, nextId, result, req, habits,
                   currentMonth, monthStats, habitTable, timer>>

\* setIcon(icon)
SetIcon(icon) ==
    /\ pageView.mounted
    /\ pageView.page.loaded
    /\ SavesLeft
    /\ pageView' = savePage([pageView EXCEPT !.page.icon = icon],
                            [NoUpdates EXCEPT !.icon = icon])
    /\ UNCHANGED <<center, now, tz, logs, nextId, result, req, habits,
                   currentMonth, monthStats, habitTable, timer>>

\* setColor(color)
SetColor(color) ==
    /\ pageView.mounted
    /\ pageView.page.loaded
    /\ SavesLeft
    /\ pageView' = savePage([pageView EXCEPT !.page.color = color],
                            [NoUpdates EXCEPT !.color = color])
    /\ UNCHANGED <<center, now, tz, logs, nextId, result, req, habits,
                   currentMonth, monthStats, habitTable, timer>>

\* handleContentUpdate(content): the editor reports a change; the timeout
\* pending is cleared and a new one of 1000 ms set.
HandleContentUpdate(content) ==
    /\ pageView.mounted
    /\ pageView.page.loaded
    /\ SavesLeft \/ pageView.saveTimeout # NoTimeout
    /\ pageView.saveTimeout # content
    /\ pageView' = [pageView EXCEPT !.saveTimeout = content]
    /\ UNCHANGED <<center, now, tz, logs, nextId, result, req, habits,
                   currentMonth, monthStats, habitTable, timer>>

\* The 1000 ms are over: savePage({ content }).
SaveTimeoutFires ==
    /\ pageView.mounted
    /\ pageView.saveTimeout # NoTimeout
    /\ pageView' = savePage([pageView EXCEPT !.saveTimeout = NoTimeout],
                            [NoUpdates EXCEPT !.content = pageView.saveTimeout])
    /\ UNCHANGED <<center, now, tz, logs, nextId, result, req, habits,
                   currentMonth, monthStats, habitTable, timer>>

\* The k-th PATCH is answered 2xx: setPage, setSaveStatus("saved") and a
\* timeout of 2000 ms that will set "idle".
RespondOk(k) ==
    /\ pageView.mounted
    /\ k \in 1..Len(pageView.requests)
    /\ pageView' = [pageView EXCEPT
                       !.page = pageAfterSave(@, pageView.requests[k],
                                              pageView.patched + 1),
                       !.patched = @ + 1,
                       !.saveStatus = "saved",
                       !.idleTimeouts = @ + 1,
                       !.requests = Without(@, k)]
    /\ UNCHANGED <<center, now, tz, logs, nextId, result, req, habits,
                   currentMonth, monthStats, habitTable, timer>>

\* The k-th PATCH is answered 401, 404 or 500: res.ok is false and the
\* function ends.
RespondNotOk(k) ==
    /\ pageView.mounted
    /\ k \in 1..Len(pageView.requests)
    /\ pageView' = [pageView EXCEPT !.requests = Without(@, k)]
    /\ UNCHANGED <<center, now, tz, logs, nextId, result, req, habits,
                   currentMonth, monthStats, habitTable, timer>>

\* The fetch of the k-th PATCH rejects: catch, setSaveStatus("idle").
NetworkError(k) ==
    /\ pageView.mounted
    /\ k \in 1..Len(pageView.requests)
    /\ pageView' = [pageView EXCEPT !.saveStatus = "idle",
                                    !.requests = Without(@, k)]
    /\ UNCHANGED <<center, now, tz, logs, nextId, result, req, habits,
                   currentMonth, monthStats, habitTable, timer>>

\* A setTimeout(() => setSaveStatus("idle"), 2000) runs.
IdleTimeoutFires ==
    /\ pageView.mounted
    /\ pageView.idleTimeouts > 0
    /\ pageView' = [pageView EXCEPT !.saveStatus = "idle",
                                    !.idleTimeouts = @ - 1]
    /\ UNCHANGED <<center, now, tz, logs, nextId, result, req, habits,
                   currentMonth, monthStats, habitTable, timer>>

----------------------------------------------------------------------------
(* Specification SpecPage: a PageView is mounted and the user makes up to  *)
(* MaxSaves savePage calls.  SpecPageFair adds what the runtime provides:  *)
(* every request is answered or fails in the end, and every timeout set    *)
(* runs; the user is not bound to do anything.                             *)

InitPage ==
    /\ pageView = [mounted |-> TRUE, page |-> NoPage, isLoading |-> TRUE,
                   saveStatus |-> "idle", saveTimeout |-> NoTimeout,
                   requests |-> <<>>, idleTimeouts |-> 0,
                   calls |-> 0, patched |-> 0]
    /\ now = 0
    /\ tz = 0
    /\ logs = {}
    /\ nextId = 0
    /\ result = NoResponse
    /\ req = <<>>
    /\ habits = <<>>
    /\ currentMonth = NoDay
    /\ monthStats = NoStats
    /\ habitTable = <<>>
    /\ timer = NoTimer
    /\ center = NoCenter

PatchSettles ==
    \E k \in 1..MaxSaves : RespondOk(k) \/ RespondNotOk(k) \/ NetworkError(k)

NextPage ==
    \/ \E ok \in BOOLEAN : FetchPageReturns(ok)
    \/ \E title \in Titles : HandleTitleBlur(title)
    \/ ToggleFavorite
    \/ \E icon \in Icons : SetIcon(icon)
    \/ \E color \in Colors : SetColor(color)
    \/ \E content \in {"a", "b"} : HandleContentUpdate(content)
    \/ SaveTimeoutFires
    \/ \E k \in 1..MaxSaves : RespondOk(k)
    \/ \E k \in 1..MaxSaves : RespondNotOk(k)
    \/ \E k \in 1..MaxSaves : NetworkError(k)
    \/ IdleTimeoutFires

SpecPage == InitPage /\ [][NextPage]_vars

SpecPageFair ==
    /\ SpecPage
    /\ WF_vars(\E ok \in BOOLEAN : FetchPageReturns(ok))
    /\ WF_vars(PatchSettles)
    /\ WF_vars(SaveTimeoutFires)
    /\ WF_vars(IdleTimeoutFires)

\* C30: whenever saveStatus is "saving", it is "idle" again at some later
\* time, whatever the PATCH comes to.
C30_SaveSettles ==
    (pageView.saveStatus = "saving") ~> (pageView.saveStatus = "idle")

====
